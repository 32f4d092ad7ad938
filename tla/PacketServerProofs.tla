-------------------------- MODULE PacketServerProofs ------------------------
(***************************************************************************)
(* The server of the SCTP and DCCP tests keeps its books, whatever its     *)
(* clients are: every step of the server and of the kernel preserves       *)
(* ServerInv, for every number of connections, table entries, descriptors  *)
(* and sizes.  The proofs of the two tests build on these lemmas.          *)
(***************************************************************************)
EXTENDS PacketServer, FiniteSums

(* The volume of a bag of messages. *)
LEMMA SizesFinite ==
    ASSUME ServerConstants
    PROVE  IsFiniteSet(Sizes) /\ \A z \in Sizes : z \in Nat /\ z > 0 /\ z <= BufferSize
  BY FS_Interval DEF ServerConstants, Sizes

LEMMA EmptyBag == Empty \in [Sizes -> Nat]
  BY DEF Empty

LEMMA VolumeType ==
    ASSUME ServerConstants, NEW bag \in [Sizes -> Nat]
    PROVE  Volume(bag) \in Nat
  <1> DEFINE f == [z \in Sizes |-> z * bag[z]]
  <1>1. \A z \in Sizes : f[z] \in Nat
    BY SizesFinite
  <1> HIDE DEF f
  <1>2. SumFunctionOnSet(f, Sizes) \in Nat
    BY <1>1, SizesFinite, SumNat
  <1> QED
    BY <1>2 DEF Volume, SumFunction, f

LEMMA VolumeEmpty ==
    ASSUME ServerConstants
    PROVE  Volume(Empty) = 0
  <1> DEFINE f == [z \in Sizes |-> z * Empty[z]]
  <1>1. \A z \in Sizes : f[z] = 0
    BY SizesFinite DEF Empty
  <1>2. DOMAIN f = Sizes
    OBVIOUS
  <1> HIDE DEF f
  <1>3. SumFunctionOnSet(f, Sizes) = 0
    BY <1>1, SizesFinite, SumZero
  <1> QED
    BY <1>2, <1>3 DEF Volume, SumFunction, f

(* Two bags that differ in the number of messages of one size. *)
LEMMA VolumeDiffers ==
    ASSUME ServerConstants, NEW bag \in [Sizes -> Nat], NEW other \in [Sizes -> Nat],
           NEW z \in Sizes, \A y \in Sizes \ {z} : other[y] = bag[y]
    PROVE  Volume(other) = Volume(bag) + z * other[z] - z * bag[z]
  <1> DEFINE f == [y \in Sizes |-> y * bag[y]]  g == [y \in Sizes |-> y * other[y]]
  <1>1. /\ \A y \in Sizes : f[y] \in Int /\ g[y] \in Int
        /\ \A y \in Sizes \ {z} : g[y] = f[y]
        /\ f[z] = z * bag[z] /\ g[z] = z * other[z]
        /\ DOMAIN f = Sizes /\ DOMAIN g = Sizes
    BY SizesFinite
  <1>2. Volume(bag) = SumFunctionOnSet(f, Sizes) /\ Volume(other) = SumFunctionOnSet(g, Sizes)
    BY <1>1 DEF Volume, SumFunction
  <1> HIDE DEF f, g
  <1>3. SumFunctionOnSet(g, Sizes) = SumFunctionOnSet(f, Sizes) + g[z] - f[z]
    BY <1>1, SizesFinite, SumChange
  <1> QED
    BY <1>1, <1>2, <1>3

LEMMA VolumeWith ==
    ASSUME ServerConstants, NEW bag \in [Sizes -> Nat], NEW z \in Sizes
    PROVE  /\ With(bag, z) \in [Sizes -> Nat]
           /\ Volume(With(bag, z)) = Volume(bag) + z
  <1> DEFINE other == With(bag, z)
  <1>1. /\ other \in [Sizes -> Nat] /\ other[z] = bag[z] + 1
        /\ \A y \in Sizes \ {z} : other[y] = bag[y]
    BY DEF With
  <1> HIDE DEF other
  <1>2. Volume(other) = Volume(bag) + z * other[z] - z * bag[z]
    BY <1>1, VolumeDiffers
  <1>3. z * (bag[z] + 1) = z * bag[z] + z /\ z * bag[z] \in Int
    BY SizesFinite
  <1>4. Volume(bag) \in Nat /\ z \in Nat
    BY VolumeType, SizesFinite
  <1>5. Volume(other) = Volume(bag) + z
    BY <1>1, <1>2, <1>3, <1>4
  <1> QED
    BY <1>1, <1>5 DEF other

LEMMA VolumeWithout ==
    ASSUME ServerConstants, NEW bag \in [Sizes -> Nat], NEW z \in Sizes, bag[z] > 0
    PROVE  /\ Without(bag, z) \in [Sizes -> Nat]
           /\ Volume(Without(bag, z)) = Volume(bag) - z
  <1> DEFINE other == Without(bag, z)
  <1>1. /\ other \in [Sizes -> Nat] /\ other[z] = bag[z] - 1
        /\ \A y \in Sizes \ {z} : other[y] = bag[y]
    BY DEF Without
  <1> HIDE DEF other
  <1>2. Volume(other) = Volume(bag) + z * other[z] - z * bag[z]
    BY <1>1, VolumeDiffers
  <1>3. z * (bag[z] - 1) = z * bag[z] - z /\ z * bag[z] \in Int
    BY SizesFinite
  <1>4. Volume(bag) \in Nat /\ z \in Nat
    BY VolumeType, SizesFinite
  <1>5. Volume(other) = Volume(bag) - z
    BY <1>1, <1>2, <1>3, <1>4
  <1> QED
    BY <1>1, <1>5 DEF other

-----------------------------------------------------------------------------
(* The initial state of the kernel and the server. *)
LEMMA ServerInitHolds ==
    ASSUME ServerConstants, NetInit, ServerInit
    PROVE  ServerInv
  <1> USE DEF NetInit, ServerInit
  <1>1. NetTypeOK
    BY EmptyBag DEF NetTypeOK
  <1>2. ServerTypeOK
    BY DEF ServerTypeOK, ServerConstants, Entries, NoTotal
  <1>3. EndInv
    BY DEF EndInv
  <1>4. \A e \in Entries : client_socket[e] \notin Conns
    BY DEF ServerConstants
  <1>5. PlaceInv
    BY <1>4 DEF PlaceInv
  <1>6. CountInv
    <2>1. \A s \in Conns : total[s] = NoTotal
      OBVIOUS
    <2>2. ASSUME NEW s \in Conns PROVE Books(s, 0) /\ Debt(s) = 0
      <3>1. Debt(s) = 0
        BY DEF Debt
      <3> QED
        BY <3>1, VolumeEmpty DEF Books
    <2> QED
      BY <1>4, <2>1, <2>2 DEF CountInv
  <1> QED
    BY <1>1, <1>2, <1>3, <1>5, <1>6 DEF ServerInv

-----------------------------------------------------------------------------
(* A step that moves the messages of one connection keeps the invariant    *)
(* when it keeps that connection's books.                                  *)
LEMMA OneConnection ==
    ASSUME ServerInv, NEW s \in Conns, UNCHANGED <<serverVars, backlog>>, NetTypeOK',
           \A t \in Conns \ {s} :
              /\ link'[t] = link[t] /\ sent'[t] = sent[t] /\ air'[t] = air[t]
              /\ inbox'[t] = inbox[t] /\ rx'[t] = rx[t] /\ lost'[t] = lost[t],
           rx'[s] # "more" =>
              air'[s] = Empty /\ link'[s] # "up" /\ (srv # "exited" => link'[s] # "none"),
           rx'[s] = "err" => link'[s] = "reset",
           link[s] # "none" => link'[s] # "none",
           Debt(s)' = Debt(s),
           \A n \in Int : Books(s, n) => Books(s, n)',
           total[s] # NoTotal =>
              rx'[s] = "eof" /\ link'[s] \in {"fin", "reset"} /\ inbox'[s] = Empty
    PROVE  ServerInv'
  <1>1. ServerTypeOK'
    BY DEF ServerInv, ServerTypeOK, serverVars
  <1>2. EndInv'
    BY DEF ServerInv, EndInv, serverVars
  <1>3. \A t \in Conns : link[t] # "none" => link'[t] # "none"
    OBVIOUS
  <1>4. PlaceInv'
    <2>1. \A k \in DOMAIN backlog : backlog[k] \in Conns
      BY DEF ServerInv, NetTypeOK
    <2> QED
      BY <1>3, <2>1 DEF ServerInv, PlaceInv, InTable, serverVars
  <1>5. ASSUME NEW t \in Conns, NEW n \in Int, Books(t, n)
        PROVE  Books(t, n)' /\ Debt(t)' = Debt(t)
    BY <1>5 DEF Books, Debt
  <1>6. CountInv'
    <2>1. \A e \in Entries : client_reads[e] \in Int
      BY DEF ServerInv, ServerTypeOK
    <2>2. \A t \in Conns : total[t] \in Int
      BY DEF ServerInv, ServerTypeOK
    <2> QED
      BY <1>5, <2>1, <2>2 DEF ServerInv, CountInv, InTable, serverVars
  <1> QED
    BY <1>1, <1>2, <1>4, <1>6 DEF ServerInv

(* A message is handed to the kernel on a connection that holds. *)
LEMMA LaunchKeeps ==
    ASSUME ServerConstants, ServerInv, UNCHANGED serverVars,
           NEW s \in Conns, link[s] = "up", NEW z \in Sizes, Launch(s, z)
    PROVE  ServerInv'
  <1> USE DEF Launch
  <1>1. /\ With(air[s], z) \in [Sizes -> Nat]
        /\ Volume(With(air[s], z)) = Volume(air[s]) + z
        /\ z \in Nat
    BY VolumeWith, SizesFinite DEF ServerInv, NetTypeOK
  <1>2. NetTypeOK'
    BY <1>1 DEF ServerInv, NetTypeOK
  <1>3. rx[s] = "more"
    BY DEF ServerInv, EndInv, NetTypeOK
  <1>4. air'[s] = With(air[s], z) /\ sent'[s] = sent[s] + z
    BY DEF ServerInv, NetTypeOK
  <1>5. total[s] = NoTotal
    BY <1>3 DEF ServerInv, CountInv
  <1>6. Debt(s)' = Debt(s)
    BY DEF Debt
  <1>7. ASSUME NEW n \in Int, Books(s, n) PROVE Books(s, n)'
    <2>1. /\ sent[s] \in Int /\ lost[s] \in Int /\ Debt(s) \in Int
          /\ Volume(air[s]) \in Int /\ Volume(inbox[s]) \in Int
      BY VolumeType DEF ServerInv, NetTypeOK, Debt
    <2> QED
      BY <1>1, <1>4, <1>6, <1>7, <2>1 DEF Books
  <1>8. \A t \in Conns \ {s} : sent'[t] = sent[t] /\ air'[t] = air[t]
    BY DEF ServerInv, NetTypeOK
  <1> QED
    BY <1>2, <1>3, <1>5, <1>6, <1>7, <1>8, OneConnection

(* The kernel does not take a message: it is lost. *)
LEMMA RefuseKeeps ==
    ASSUME ServerConstants, ServerInv, UNCHANGED serverVars,
           NEW s \in Conns, NEW z \in Nat,
           sent' = [sent EXCEPT ![s] = @ + z], lost' = [lost EXCEPT ![s] = @ + z],
           UNCHANGED <<link, air, inbox, rx, backlog>>
    PROVE  ServerInv'
  <1>1. NetTypeOK'
    BY DEF ServerInv, NetTypeOK
  <1>2. sent'[s] = sent[s] + z /\ lost'[s] = lost[s] + z
    BY DEF ServerInv, NetTypeOK
  <1>3. Debt(s)' = Debt(s)
    BY DEF Debt
  <1>4. ASSUME NEW n \in Int, Books(s, n) PROVE Books(s, n)'
    <2>1. /\ sent[s] \in Int /\ lost[s] \in Int /\ Debt(s) \in Int
          /\ Volume(air[s]) \in Int /\ Volume(inbox[s]) \in Int
      BY VolumeType DEF ServerInv, NetTypeOK, Debt
    <2> QED
      BY <1>2, <1>3, <1>4, <2>1 DEF Books
  <1>5. \A t \in Conns \ {s} : sent'[t] = sent[t] /\ lost'[t] = lost[t]
    BY DEF ServerInv, NetTypeOK
  <1>6. rx[s] # "more" =>
            air[s] = Empty /\ link[s] # "up" /\ (srv # "exited" => link[s] # "none")
    BY DEF ServerInv, EndInv
  <1>7. rx[s] = "err" => link[s] = "reset"
    BY DEF ServerInv, EndInv
  <1>8. total[s] # NoTotal =>
            rx[s] = "eof" /\ link[s] \in {"fin", "reset"} /\ inbox[s] = Empty
    BY DEF ServerInv, CountInv
  <1> QED
    BY <1>1, <1>3, <1>4, <1>5, <1>6, <1>7, <1>8, OneConnection

(* A message arrives. *)
LEMMA DeliverKeeps ==
    ASSUME ServerConstants, ServerInv, UNCHANGED serverVars, NEW s \in Conns, Deliver(s)
    PROVE  ServerInv'
  <1> USE DEF Deliver
  <1>1. PICK z \in Sizes :
            /\ air[s][z] > 0
            /\ air' = [air EXCEPT ![s] = Without(@, z)]
            /\ inbox' = [inbox EXCEPT ![s] = With(@, z)]
    OBVIOUS
  <1>2. air[s] \in [Sizes -> Nat] /\ inbox[s] \in [Sizes -> Nat]
    BY DEF ServerInv, NetTypeOK
  <1>3. /\ Without(air[s], z) \in [Sizes -> Nat]
        /\ Volume(Without(air[s], z)) = Volume(air[s]) - z
        /\ With(inbox[s], z) \in [Sizes -> Nat]
        /\ Volume(With(inbox[s], z)) = Volume(inbox[s]) + z
        /\ z \in Nat
    BY <1>1, <1>2, VolumeWith, VolumeWithout, SizesFinite
  <1>4. NetTypeOK'
    BY <1>1, <1>3 DEF ServerInv, NetTypeOK
  <1>5. air'[s] = Without(air[s], z) /\ inbox'[s] = With(inbox[s], z)
    BY <1>1 DEF ServerInv, NetTypeOK
  <1>6. total[s] = NoTotal
    BY DEF ServerInv, CountInv
  <1>7. Debt(s)' = Debt(s)
    BY DEF Debt
  <1>8. ASSUME NEW n \in Int, Books(s, n) PROVE Books(s, n)'
    <2>1. /\ sent[s] \in Int /\ lost[s] \in Int /\ Debt(s) \in Int
          /\ Volume(air[s]) \in Int /\ Volume(inbox[s]) \in Int
      BY VolumeType DEF ServerInv, NetTypeOK, Debt
    <2> QED
      BY <1>3, <1>5, <1>7, <1>8, <2>1 DEF Books
  <1>9. \A t \in Conns \ {s} : inbox'[t] = inbox[t] /\ air'[t] = air[t]
    BY <1>1 DEF ServerInv, NetTypeOK
  <1> QED
    BY <1>4, <1>6, <1>7, <1>8, <1>9, OneConnection

(* A message is dropped. *)
LEMMA LoseKeeps ==
    ASSUME ServerConstants, ServerInv, UNCHANGED serverVars, NEW s \in Conns, Lose(s)
    PROVE  ServerInv'
  <1> USE DEF Lose
  <1>1. PICK z \in Sizes :
            /\ air[s][z] > 0
            /\ air' = [air EXCEPT ![s] = Without(@, z)]
            /\ lost' = [lost EXCEPT ![s] = @ + z]
    OBVIOUS
  <1>2. air[s] \in [Sizes -> Nat]
    BY DEF ServerInv, NetTypeOK
  <1>3. /\ Without(air[s], z) \in [Sizes -> Nat]
        /\ Volume(Without(air[s], z)) = Volume(air[s]) - z
        /\ z \in Nat
    BY <1>1, <1>2, VolumeWithout, SizesFinite
  <1>4. NetTypeOK'
    BY <1>1, <1>3 DEF ServerInv, NetTypeOK
  <1>5. air'[s] = Without(air[s], z) /\ lost'[s] = lost[s] + z
    BY <1>1 DEF ServerInv, NetTypeOK
  <1>6. rx[s] = "more"
    <2>1. Empty[z] = 0
      BY DEF Empty
    <2> QED
      BY <1>1, <2>1 DEF ServerInv, EndInv
  <1>7. total[s] = NoTotal
    BY <1>6 DEF ServerInv, CountInv
  <1>8. Debt(s)' = Debt(s)
    BY DEF Debt
  <1>9. ASSUME NEW n \in Int, Books(s, n) PROVE Books(s, n)'
    <2>1. /\ sent[s] \in Int /\ lost[s] \in Int /\ Debt(s) \in Int
          /\ Volume(air[s]) \in Int /\ Volume(inbox[s]) \in Int
      BY VolumeType DEF ServerInv, NetTypeOK, Debt
    <2> QED
      BY <1>3, <1>5, <1>8, <1>9, <2>1 DEF Books
  <1>10. \A t \in Conns \ {s} : lost'[t] = lost[t] /\ air'[t] = air[t]
    BY <1>1 DEF ServerInv, NetTypeOK
  <1> QED
    BY <1>4, <1>6, <1>7, <1>8, <1>9, <1>10, OneConnection

(* The end of a connection drops what is still on its way. *)
LEMMA CutOffBooks ==
    ASSUME ServerConstants, ServerInv, NEW s \in Conns, rx[s] = "more",
           NEW end \in {"eof", "err"}, CutOff(s, end),
           end = "eof" => link'[s] # "reset"
    PROVE  /\ rx'[s] = end /\ air'[s] = Empty
           /\ rx' \in [Conns -> {"more", "eof", "err"}]
           /\ air' \in [Conns -> [Sizes -> Nat]] /\ lost' \in [Conns -> Nat]
           /\ Debt(s)' = Debt(s)
           /\ \A n \in Int : Books(s, n) => Books(s, n)'
           /\ \A t \in Conns \ {s} : rx'[t] = rx[t] /\ air'[t] = air[t] /\ lost'[t] = lost[t]
  <1> USE DEF CutOff, ServerInv, NetTypeOK
  <1>1. rx'[s] = end /\ air'[s] = Empty /\ lost'[s] = lost[s] + Volume(air[s])
    OBVIOUS
  <1>2. Volume(air[s]) \in Nat /\ Volume(inbox[s]) \in Nat
    BY VolumeType
  <1>3. /\ rx' \in [Conns -> {"more", "eof", "err"}]
        /\ air' \in [Conns -> [Sizes -> Nat]] /\ lost' \in [Conns -> Nat]
    BY <1>2, EmptyBag
  <1>4. Debt(s)' = Debt(s)
    BY <1>1 DEF Debt
  <1>5. ASSUME NEW n \in Int, Books(s, n) PROVE Books(s, n)'
    <2>1. sent[s] \in Int /\ lost[s] \in Int /\ Debt(s) \in Int
      BY DEF Debt
    <2> QED
      BY <1>1, <1>2, <1>4, <1>5, <2>1, VolumeEmpty DEF Books
  <1> QED
    BY <1>1, <1>3, <1>4, <1>5

LEMMA DeliverEndKeeps ==
    ASSUME ServerConstants, ServerInv, UNCHANGED serverVars, NEW s \in Conns, DeliverEnd(s)
    PROVE  ServerInv'
  <1> USE DEF DeliverEnd
  <1>1. /\ rx'[s] = "eof" /\ air'[s] = Empty
        /\ rx' \in [Conns -> {"more", "eof", "err"}]
        /\ air' \in [Conns -> [Sizes -> Nat]] /\ lost' \in [Conns -> Nat]
        /\ Debt(s)' = Debt(s)
        /\ \A n \in Int : Books(s, n) => Books(s, n)'
        /\ \A t \in Conns \ {s} : rx'[t] = rx[t] /\ air'[t] = air[t] /\ lost'[t] = lost[t]
    BY CutOffBooks
  <1>2. NetTypeOK'
    BY <1>1 DEF ServerInv, NetTypeOK, CutOff
  <1>3. total[s] = NoTotal
    BY DEF ServerInv, CountInv
  <1> QED
    BY <1>1, <1>2, <1>3, OneConnection DEF CutOff

LEMMA BreakKeeps ==
    ASSUME ServerConstants, ServerInv, UNCHANGED serverVars, NEW s \in Conns, Break(s)
    PROVE  ServerInv'
  <1> USE DEF Break
  <1>1. rx[s] = "more"
    BY DEF ServerInv, EndInv, NetTypeOK
  <1>2. /\ rx'[s] = "err" /\ air'[s] = Empty
        /\ rx' \in [Conns -> {"more", "eof", "err"}]
        /\ air' \in [Conns -> [Sizes -> Nat]] /\ lost' \in [Conns -> Nat]
        /\ Debt(s)' = Debt(s)
        /\ \A n \in Int : Books(s, n) => Books(s, n)'
        /\ \A t \in Conns \ {s} : rx'[t] = rx[t] /\ air'[t] = air[t] /\ lost'[t] = lost[t]
    BY <1>1, CutOffBooks
  <1>3. NetTypeOK'
    BY <1>2 DEF ServerInv, NetTypeOK, CutOff
  <1>4. total[s] = NoTotal
    BY <1>1 DEF ServerInv, CountInv
  <1>5. link'[s] = "reset" /\ \A t \in Conns \ {s} : link'[t] = link[t]
    BY DEF ServerInv, NetTypeOK
  <1> QED
    BY <1>2, <1>3, <1>4, <1>5, OneConnection DEF CutOff

(* What the kernel does of its own accord. *)
LEMMA NetKeeps ==
    ASSUME ServerConstants, ServerInv, UNCHANGED serverVars, NEW s \in Conns,
           NetMoves(s) \/ Break(s)
    PROVE  ServerInv'
  BY DeliverKeeps, LoseKeeps, DeliverEndKeeps, BreakKeeps DEF NetMoves

(* close(): the server has seen nothing of it yet. *)
LEMMA CloseConnsKeeps ==
    ASSUME ServerConstants, ServerInv, UNCHANGED serverVars, NEW S, CloseConns(S)
    PROVE  ServerInv'
  <1> USE DEF CloseConns, Closed
  <1>1. \A s \in Conns : link'[s] = IF s \in S /\ link[s] = "up" THEN "fin" ELSE link[s]
    OBVIOUS
  <1>2. NetTypeOK'
    BY DEF ServerInv, NetTypeOK
  <1>3. ServerTypeOK'
    BY DEF ServerInv, ServerTypeOK, serverVars
  <1>4. EndInv'
    BY <1>1 DEF ServerInv, EndInv, serverVars
  <1>5. \A s \in Conns : link[s] # "none" => link'[s] # "none"
    BY <1>1
  <1>6. PlaceInv'
    <2>1. \A k \in DOMAIN backlog : backlog[k] \in Conns
      BY DEF ServerInv, NetTypeOK
    <2> QED
      BY <1>5, <2>1 DEF ServerInv, PlaceInv, InTable, serverVars
  <1>7. \A s \in Conns : Debt(s)' = Debt(s)
    BY <1>1 DEF Debt
  <1>8. \A s \in Conns, n \in Int : Books(s, n)' <=> Books(s, n)
    BY <1>7 DEF Books
  <1>9. CountInv'
    <2>1. \A e \in Entries : client_reads[e] \in Int
      BY DEF ServerInv, ServerTypeOK
    <2>2. \A s \in Conns : total[s] \in Int
      BY DEF ServerInv, ServerTypeOK
    <2> QED
      BY <1>1, <1>7, <1>8, <2>1, <2>2 DEF ServerInv, CountInv, InTable, serverVars
  <1> QED
    BY <1>2, <1>3, <1>4, <1>6, <1>9 DEF ServerInv

(* connect(): a connection that was not made before joins the queue.       *)
LEMMA EstablishKeeps ==
    ASSUME ServerConstants, ServerInv, UNCHANGED serverVars,
           NEW s \in Conns, link[s] = "none", srv # "exited", Establish(s)
    PROVE  ServerInv'
  <1> USE DEF Establish
  <1>1. NetTypeOK'
    BY DEF ServerInv, NetTypeOK
  <1>2. ServerTypeOK'
    BY DEF ServerInv, ServerTypeOK, serverVars
  <1>3. rx[s] = "more"
    BY DEF ServerInv, EndInv
  <1>4. link'[s] = "up" /\ \A t \in Conns \ {s} : link'[t] = link[t]
    BY DEF ServerInv, NetTypeOK
  <1>5. EndInv'
    BY <1>3, <1>4 DEF ServerInv, EndInv, serverVars
  <1>6. /\ total[s] = NoTotal
        /\ ~ InTable(s)
        /\ \A k \in DOMAIN backlog : backlog[k] # s
    BY DEF ServerInv, CountInv, PlaceInv, InTable
  <1>7. /\ backlog \in Seq(Conns)
        /\ Len(backlog') = Len(backlog) + 1
        /\ \A k \in DOMAIN backlog' :
              IF k \in DOMAIN backlog THEN backlog'[k] = backlog[k]
                                      ELSE k = Len(backlog) + 1 /\ backlog'[k] = s
    BY DEF ServerInv, NetTypeOK
  <1>8. PlaceInv'
    <2>1. \A k, n \in DOMAIN backlog' : backlog'[k] = backlog'[n] => k = n
      BY <1>6, <1>7 DEF ServerInv, PlaceInv
    <2>2. \A t \in Conns : InTable(t)' <=> InTable(t)
      BY DEF InTable, serverVars
    <2>3. ASSUME NEW k \in DOMAIN backlog'
          PROVE  /\ link'[backlog'[k]] # "none" /\ total'[backlog'[k]] = NoTotal
                 /\ \A e \in Entries : client_socket'[e] # backlog'[k]
      <3>1. CASE k \in DOMAIN backlog
        <4>1. backlog'[k] = backlog[k] /\ backlog[k] \in Conns
          BY <1>7, <3>1
        <4> QED
          BY <3>1, <4>1, <1>4, <2>2 DEF ServerInv, PlaceInv, serverVars, InTable
      <3>2. CASE k \notin DOMAIN backlog
        <4>1. backlog'[k] = s
          BY <1>7, <3>2
        <4> QED
          BY <4>1, <1>4, <1>6, <2>2 DEF serverVars, InTable
      <3> QED
        BY <3>1, <3>2
    <2>4. ASSUME NEW e \in Entries, client_socket'[e] \in Conns
          PROVE  /\ link'[client_socket'[e]] # "none" /\ total'[client_socket'[e]] = NoTotal
                 /\ \A x \in Entries : client_socket'[x] = client_socket'[e] => x = e
      BY <1>4, <2>4 DEF ServerInv, PlaceInv, serverVars
    <2> QED
      BY <2>1, <2>3, <2>4 DEF PlaceInv, InTable
  <1>9. \A t \in Conns : Debt(t)' = Debt(t)
    BY <1>3, <1>4 DEF Debt
  <1>10. \A t \in Conns, n \in Int : Books(t, n)' <=> Books(t, n)
    BY <1>9 DEF Books
  <1>11. CountInv'
    <2>1. \A e \in Entries : client_reads[e] \in Int
      BY DEF ServerInv, ServerTypeOK
    <2>2. \A t \in Conns : total[t] \in Int
      BY DEF ServerInv, ServerTypeOK
    <2> QED
      BY <1>4, <1>6, <1>9, <1>10, <2>1, <2>2 DEF ServerInv, CountInv, InTable, serverVars
  <1> QED
    BY <1>1, <1>2, <1>5, <1>8, <1>11 DEF ServerInv

-----------------------------------------------------------------------------
(* A step of the loop that only moves on. *)
LEMMA LoopKeeps ==
    ASSUME ServerInv, srv # "exited", srv' # "exited", ServerTypeOK',
           UNCHANGED <<client_socket, client_reads, total, netVars>>
    PROVE  ServerInv'
  <1>1. NetTypeOK' /\ EndInv' /\ PlaceInv'
    BY DEF ServerInv, NetTypeOK, EndInv, PlaceInv, InTable, netVars
  <1>2. CountInv'
    BY DEF ServerInv, CountInv, InTable, Books, Debt, netVars
  <1> QED
    BY <1>1, <1>2 DEF ServerInv

LEMMA SelectKeeps ==
    ASSUME ServerInv, Select
    PROVE  ServerInv'
  <1>1. ServerTypeOK'
    BY DEF Select, ServerInv, ServerTypeOK, ReadySet, Watched
  <1> QED
    BY <1>1, LoopKeeps DEF Select

LEMMA NextEntryType ==
    ASSUME ServerConstants, ServerTypeOK, srv = "scan", NextEntry
    PROVE  at' \in Entries /\ srv' \in {"scan", "select"}
  BY DEF ServerConstants, ServerTypeOK, NextEntry, Entries

LEMMA SkipKeeps ==
    ASSUME ServerConstants, ServerInv, Skip
    PROVE  ServerInv'
  <1>1. at' \in Entries /\ srv' \in {"scan", "select"}
    BY NextEntryType DEF Skip, ServerInv
  <1>2. ServerTypeOK'
    BY <1>1 DEF Skip, ServerInv, ServerTypeOK
  <1> QED
    BY <1>1, <1>2, LoopKeeps DEF Skip

(* The entry that accept()'s result goes to. *)
LEMMA FirstFreeUnique ==
    ASSUME NEW e \in Entries, NEW x \in Entries, FirstFree(e), FirstFree(x)
    PROVE  e = x
  BY DEF FirstFree, Entries

LEMMA StoreTable ==
    ASSUME NEW v, Store(v)
    PROVE  \/ client_socket' = [e \in Entries |-> client_socket[e]]
           \/ \E f \in Entries :
                /\ client_socket[f] = Free
                /\ client_socket' = [e \in Entries |-> IF e = f THEN v ELSE client_socket[e]]
  <1>1. CASE \E f \in Entries : FirstFree(f)
    <2>1. PICK f \in Entries : FirstFree(f)
      BY <1>1
    <2>2. \A e \in Entries : FirstFree(e) <=> e = f
      BY <2>1, FirstFreeUnique
    <2>3. client_socket' = [e \in Entries |-> IF e = f THEN v ELSE client_socket[e]]
      BY <2>2 DEF Store
    <2> QED
      BY <2>1, <2>3 DEF FirstFree
  <1>2. CASE ~ \E f \in Entries : FirstFree(f)
    BY <1>2 DEF Store
  <1> QED
    BY <1>1, <1>2

(* accept() fails and its -1 takes an entry. *)
LEMMA StoreBadKeeps ==
    ASSUME ServerConstants, ServerInv, srv # "exited", Store(Bad), srv' = "scan",
           UNCHANGED <<at, client_reads, readfds, open, total, netVars>>
    PROVE  ServerInv'
  <1>1. /\ client_socket' \in [Entries -> Conns \cup {Free, Bad}]
        /\ \A e \in Entries : client_socket'[e] = client_socket[e]
                              \/ (client_socket[e] = Free /\ client_socket'[e] = Bad)
    BY StoreTable DEF ServerInv, ServerTypeOK
  <1>2. ServerTypeOK'
    BY <1>1 DEF ServerInv, ServerTypeOK
  <1>3. \A s \in Conns, e \in Entries : client_socket'[e] = s <=> client_socket[e] = s
    BY <1>1 DEF ServerConstants
  <1>4. \A s \in Conns : InTable(s)' <=> InTable(s)
    BY <1>3 DEF InTable
  <1>5. NetTypeOK' /\ EndInv'
    BY DEF ServerInv, NetTypeOK, EndInv, netVars
  <1>6. PlaceInv'
    <2>1. \A k \in DOMAIN backlog : backlog[k] \in Conns
      BY DEF ServerInv, NetTypeOK
    <2>2. \A k \in DOMAIN backlog' :
            /\ link'[backlog'[k]] # "none" /\ total'[backlog'[k]] = NoTotal
            /\ \A e \in Entries : client_socket'[e] # backlog'[k]
      BY <1>3, <2>1 DEF ServerInv, PlaceInv, netVars, InTable
    <2>3. ASSUME NEW e \in Entries, client_socket'[e] \in Conns
          PROVE  /\ link'[client_socket'[e]] # "none" /\ total'[client_socket'[e]] = NoTotal
                 /\ \A x \in Entries : client_socket'[x] = client_socket'[e] => x = e
      BY <1>3, <2>3 DEF ServerInv, PlaceInv, netVars
    <2> QED
      BY <2>2, <2>3 DEF ServerInv, PlaceInv, InTable, netVars
  <1>7. \A s \in Conns, n \in Int : Debt(s)' = Debt(s) /\ (Books(s, n)' <=> Books(s, n))
    BY DEF Debt, Books, netVars
  <1>8. CountInv'
    <2>1. \A e \in Entries : client_reads[e] \in Int
      BY DEF ServerInv, ServerTypeOK
    <2>2. \A s \in Conns : total[s] \in Int
      BY DEF ServerInv, ServerTypeOK
    <2>3. \A e \in Entries : client_socket'[e] = Free => client_reads'[e] = 0
      BY <1>1 DEF ServerInv, CountInv
    <2> QED
      BY <1>3, <1>4, <1>7, <2>1, <2>2, <2>3 DEF ServerInv, CountInv, netVars
  <1> QED
    BY <1>2, <1>5, <1>6, <1>8 DEF ServerInv

(* accept(): the oldest connection of the queue goes into the table, or    *)
(* is served by nobody when the table is full.                             *)
LEMMA AcceptKeeps ==
    ASSUME ServerConstants, ServerInv, Accept
    PROVE  ServerInv'
  <1> USE DEF Accept
  <1> DEFINE s == Head(backlog)
  <1>1. /\ backlog \in Seq(Conns) /\ backlog # << >>
        /\ s \in Conns /\ s = backlog[1] /\ 1 \in DOMAIN backlog
        /\ backlog' \in Seq(Conns)
        /\ \A k \in DOMAIN backlog' : k + 1 \in DOMAIN backlog /\ backlog'[k] = backlog[k + 1]
                                       /\ k + 1 # 1 /\ k \in Nat
    BY DEF ServerInv, NetTypeOK
  <1>2. /\ link[s] # "none" /\ total[s] = NoTotal
        /\ \A e \in Entries : client_socket[e] # s
        /\ \A k \in DOMAIN backlog' : backlog'[k] # s
    BY <1>1 DEF ServerInv, PlaceInv, InTable
  <1>3. Store(s)
    OBVIOUS
  <1> HIDE DEF s
  <1>4. /\ client_socket' \in [Entries -> Conns \cup {Free, Bad}]
        /\ \A e \in Entries : \/ client_socket'[e] = client_socket[e]
                              \/ client_socket[e] = Free /\ client_socket'[e] = s
        /\ \A e, x \in Entries : client_socket'[e] = s /\ client_socket'[x] = s => e = x
    <2>1. client_socket \in [Entries -> Conns \cup {Free, Bad}]
      BY DEF ServerInv, ServerTypeOK
    <2>2. CASE client_socket' = [e \in Entries |-> client_socket[e]]
      BY <1>2, <2>1, <2>2
    <2>3. CASE \E f \in Entries :
                /\ client_socket[f] = Free
                /\ client_socket' = [e \in Entries |-> IF e = f THEN s ELSE client_socket[e]]
      <3>1. PICK f \in Entries :
                /\ client_socket[f] = Free
                /\ client_socket' = [e \in Entries |-> IF e = f THEN s ELSE client_socket[e]]
        BY <2>3
      <3> QED
        BY <1>1, <1>2, <2>1, <3>1
    <2> QED
      BY <1>3, <2>2, <2>3, StoreTable
  <1>5. ServerTypeOK'
    BY <1>1, <1>4 DEF ServerInv, ServerTypeOK, s
  <1>6. NetTypeOK' /\ EndInv'
    BY <1>1 DEF ServerInv, NetTypeOK, EndInv
  <1>7. \A t \in Conns \ {s}, e \in Entries : client_socket'[e] = t <=> client_socket[e] = t
    BY <1>4 DEF ServerConstants
  <1>8. PlaceInv'
    <2>1. \A k, n \in DOMAIN backlog' : backlog'[k] = backlog'[n] => k = n
      <3> SUFFICES ASSUME NEW k \in DOMAIN backlog', NEW n \in DOMAIN backlog',
                          backlog'[k] = backlog'[n]
                   PROVE  k = n
        OBVIOUS
      <3>1. k + 1 = n + 1
        BY <1>1 DEF ServerInv, PlaceInv
      <3> QED
        BY <3>1, <1>1
    <2>2. \A k \in DOMAIN backlog' :
            /\ link'[backlog'[k]] # "none" /\ total'[backlog'[k]] = NoTotal
            /\ \A e \in Entries : client_socket'[e] # backlog'[k]
      <3> SUFFICES ASSUME NEW k \in DOMAIN backlog'
                   PROVE  /\ link'[backlog'[k]] # "none" /\ total'[backlog'[k]] = NoTotal
                          /\ \A e \in Entries : client_socket'[e] # backlog'[k]
        OBVIOUS
      <3>1. backlog'[k] = backlog[k + 1] /\ k + 1 \in DOMAIN backlog
            /\ backlog'[k] \in Conns \ {s}
        BY <1>1, <1>2
      <3> QED
        BY <3>1, <1>7 DEF ServerInv, PlaceInv, InTable
    <2>3. ASSUME NEW e \in Entries, client_socket'[e] \in Conns
          PROVE  /\ link'[client_socket'[e]] # "none" /\ total'[client_socket'[e]] = NoTotal
                 /\ \A x \in Entries : client_socket'[x] = client_socket'[e] => x = e
      <3>1. CASE client_socket'[e] = s
        BY <3>1, <1>2, <1>4
      <3>2. CASE client_socket'[e] # s
        BY <3>2, <2>3, <1>4, <1>7 DEF ServerInv, PlaceInv
      <3> QED
        BY <3>1, <3>2
    <2> QED
      BY <2>1, <2>2, <2>3 DEF PlaceInv, InTable
  <1>9. \A t \in Conns, n \in Int : Debt(t)' = Debt(t) /\ (Books(t, n)' <=> Books(t, n))
    BY DEF Debt, Books
  <1>10. CountInv'
    <2>1. \A e \in Entries : client_reads[e] \in Int
      BY DEF ServerInv, ServerTypeOK
    <2>2. \A t \in Conns : total[t] \in Int
      BY DEF ServerInv, ServerTypeOK
    <2>3. \A e \in Entries : client_socket'[e] = Free => client_reads'[e] = 0
      BY <1>1, <1>4 DEF ServerInv, CountInv, ServerConstants
    <2>4. Books(s, 0) /\ Debt(s) = 0
      BY <1>1, <1>2 DEF ServerInv, CountInv, InTable
    <2>5. ASSUME NEW e \in Entries, client_socket'[e] \in Conns
          PROVE  /\ Books(client_socket'[e], client_reads[e])
                 /\ client_reads[e] + Debt(client_socket'[e]) >= 0
      <3>1. CASE client_socket'[e] = client_socket[e]
        BY <3>1, <2>5 DEF ServerInv, CountInv
      <3>2. CASE client_socket[e] = Free /\ client_socket'[e] = s
        <4>1. client_reads[e] = 0
          BY <3>2 DEF ServerInv, CountInv
        <4> QED
          BY <3>2, <2>4, <4>1
      <3> QED
        BY <3>1, <3>2, <1>4
    <2>6. ASSUME NEW e \in Entries, client_socket'[e] \in Conns
          PROVE  /\ Books(client_socket[e], client_reads[e])'
                 /\ (client_reads[e] + Debt(client_socket[e]) >= 0)'
      <3> DEFINE t == client_socket'[e]
      <3>1. t \in Conns /\ Books(t, client_reads[e]) /\ client_reads[e] + Debt(t) >= 0
        BY <2>5, <2>6
      <3> QED
        BY <3>1 DEF Books, Debt
    <2>7. ASSUME NEW t \in Conns, total'[t] = NoTotal, \A e \in Entries : client_socket'[e] # t
          PROVE  Books(t, 0)' /\ Debt(t)' = 0
      <3>1. CASE t = s
        BY <3>1, <2>4, <1>9
      <3>2. CASE t # s
        BY <3>2, <2>7, <1>7, <1>9 DEF ServerInv, CountInv, InTable
      <3> QED
        BY <3>1, <3>2
    <2>8. ASSUME NEW t \in Conns, total'[t] # NoTotal
          PROVE  /\ rx'[t] = "eof" /\ link'[t] \in {"fin", "reset"}
                 /\ inbox'[t] = Empty /\ Books(t, total[t])'
      BY <2>8, <2>2, <1>9 DEF ServerInv, CountInv
    <2> QED
      BY <2>3, <2>6, <2>7, <2>8 DEF CountInv, InTable
  <1> QED
    BY <1>5, <1>6, <1>8, <1>10 DEF ServerInv

(* The connection s of the entry i the scan is at is in the table once, and *)
(* its books are kept there.                                               *)
Scanned(i, s) == srv = "scan" /\ i = at /\ s = sd /\ s \in readfds

LEMMA ScannedConnection ==
    ASSUME ServerConstants, ServerInv, NEW i, NEW s, Scanned(i, s)
    PROVE  /\ i \in Entries /\ s \in Conns /\ client_socket[i] = s
           /\ link[s] # "none" /\ total[s] = NoTotal
           /\ \A x \in Entries : client_socket[x] = s => x = i
           /\ \A k \in DOMAIN backlog : backlog[k] \in Conns \ {s}
           /\ Books(s, client_reads[i])
           /\ client_reads[i] \in Int /\ client_reads[i] + Debt(s) >= 0
           /\ sent[s] \in Int /\ lost[s] \in Int /\ Debt(s) \in {0, 1}
           /\ Volume(air[s]) \in Int /\ Volume(inbox[s]) \in Int
  <1> USE DEF Scanned
  <1>1. i \in Entries /\ s \in Conns /\ client_socket[i] = s /\ client_reads[i] \in Int
    BY DEF ServerInv, ServerTypeOK, sd
  <1>2. /\ link[s] # "none" /\ total[s] = NoTotal
        /\ \A x \in Entries : client_socket[x] = s => x = i
    BY <1>1 DEF ServerInv, PlaceInv
  <1>3. \A k \in DOMAIN backlog : backlog[k] \in Conns \ {s}
    <2>1. \A k \in DOMAIN backlog : backlog[k] \in Conns
      BY DEF ServerInv, NetTypeOK
    <2> QED
      BY <1>1, <2>1 DEF ServerInv, PlaceInv, InTable
  <1>4. Books(s, client_reads[i]) /\ client_reads[i] + Debt(s) >= 0
    BY <1>1 DEF ServerInv, CountInv
  <1>5. /\ sent[s] \in Int /\ lost[s] \in Int /\ Debt(s) \in {0, 1}
        /\ Volume(air[s]) \in Int /\ Volume(inbox[s]) \in Int
    BY <1>1, VolumeType DEF ServerInv, NetTypeOK, Debt
  <1> QED
    BY <1>1, <1>2, <1>3, <1>4, <1>5

(* A step of the scan that leaves the table as it is keeps the invariant   *)
(* when it keeps the books of the entry it is at.                          *)
LEMMA ScannedEntryKeeps ==
    ASSUME ServerConstants, ServerInv, NEW i, NEW s, Scanned(i, s),
           srv' # "exited", NetTypeOK', ServerTypeOK', EndInv',
           UNCHANGED <<client_socket, total, link, sent, air, lost, backlog>>,
           \A t \in Conns \ {s} : inbox'[t] = inbox[t] /\ rx'[t] = rx[t],
           \A e \in Entries \ {i} : client_reads'[e] = client_reads[e],
           Books(s, client_reads[i])',
           (client_reads[i] + Debt(s) >= 0)'
    PROVE  ServerInv'
  <1>1. /\ i \in Entries /\ s \in Conns /\ client_socket[i] = s
        /\ \A x \in Entries : client_socket[x] = s => x = i
        /\ total[s] = NoTotal
        /\ srv # "exited"
    BY ScannedConnection DEF Scanned
  <1>2. PlaceInv'
    BY <1>1 DEF ServerInv, PlaceInv, InTable
  <1>3. \A t \in Conns \ {s}, n \in Int : Debt(t)' = Debt(t) /\ (Books(t, n)' <=> Books(t, n))
    BY DEF Debt, Books
  <1>4. CountInv'
    <2>1. \A e \in Entries : client_reads[e] \in Int
      BY DEF ServerInv, ServerTypeOK
    <2>2. \A t \in Conns : total[t] \in Int
      BY DEF ServerInv, ServerTypeOK
    <2>3. \A e \in Entries : client_socket'[e] = Free => client_reads'[e] = 0
      BY <1>1 DEF ServerInv, CountInv, ServerConstants
    <2>4. ASSUME NEW e \in Entries, client_socket'[e] \in Conns
          PROVE  /\ Books(client_socket[e], client_reads[e])'
                 /\ (client_reads[e] + Debt(client_socket[e]) >= 0)'
      <3>1. CASE e = i
        BY <1>1, <3>1 DEF Books, Debt
      <3>2. CASE e # i
        <4> DEFINE t == client_socket[e]
        <4>1. t \in Conns \ {s} /\ client_reads'[e] = client_reads[e]
              /\ Books(t, client_reads[e]) /\ client_reads[e] + Debt(t) >= 0
          BY <1>1, <2>4, <3>2 DEF ServerInv, CountInv
        <4>2. client_socket'[e] = t
          OBVIOUS
        <4>3. \A u \in Conns \ {s} : Books(u, client_reads[e]) /\ client_reads[e] + Debt(u) >= 0
                => Books(u, client_reads[e])' /\ (client_reads[e] + Debt(u) >= 0)'
          BY <1>3, <2>1, <3>2
        <4> QED
          BY <4>1, <4>2, <4>3 DEF Books, Debt
      <3> QED
        BY <3>1, <3>2
    <2>5. ASSUME NEW t \in Conns, total'[t] = NoTotal, \A e \in Entries : client_socket'[e] # t
          PROVE  Books(t, 0)' /\ Debt(t)' = 0
      <3>1. t # s
        BY <1>1, <2>5
      <3> QED
        BY <1>1, <3>1, <2>5, <1>3 DEF ServerInv, CountInv, InTable
    <2>6. ASSUME NEW t \in Conns, total'[t] # NoTotal
          PROVE  /\ rx'[t] = "eof" /\ link'[t] \in {"fin", "reset"}
                 /\ inbox'[t] = Empty /\ Books(t, total[t])'
      <3>1. t # s
        BY <1>1, <2>6
      <3> QED
        BY <3>1, <2>6, <2>2, <1>3 DEF ServerInv, CountInv
    <2> QED
      BY <2>3, <2>4, <2>5, <2>6 DEF CountInv, InTable
  <1> QED
    BY <1>2, <1>4 DEF ServerInv

(* A message is received: it fits into the buffer and is counted whole. *)
LEMMA ReceiveKeeps ==
    ASSUME ServerConstants, ServerInv, Receive
    PROVE  ServerInv'
  <1>1. PICK i, s : Scanned(i, s)
    BY DEF Receive, Scanned
  <1>2. PICK z \in Sizes :
            /\ inbox[s][z] > 0
            /\ inbox' = [inbox EXCEPT ![s] = Without(@, z)]
            /\ client_reads' = [client_reads EXCEPT ![i] = @ +
                                    IF z < BufferSize THEN z ELSE BufferSize]
    BY <1>1 DEF Receive, Scanned
  <1>3. /\ NextEntry /\ srv = "scan"
        /\ UNCHANGED <<client_socket, readfds, open, total, link, sent, air, rx, lost, backlog>>
    BY DEF Receive
  <1>4. z \in Nat /\ (IF z < BufferSize THEN z ELSE BufferSize) = z
    BY SizesFinite DEF ServerConstants
  <1>5. /\ i \in Entries /\ s \in Conns
        /\ Books(s, client_reads[i])
        /\ client_reads[i] \in Int /\ client_reads[i] + Debt(s) >= 0
        /\ sent[s] \in Int /\ lost[s] \in Int /\ Debt(s) \in {0, 1}
        /\ Volume(air[s]) \in Int /\ Volume(inbox[s]) \in Int
    BY <1>1, ScannedConnection
  <1>6. /\ Without(inbox[s], z) \in [Sizes -> Nat]
        /\ Volume(Without(inbox[s], z)) = Volume(inbox[s]) - z
    BY <1>2, <1>5, VolumeWithout DEF ServerInv, NetTypeOK
  <1>7. NetTypeOK'
    BY <1>2, <1>3, <1>5, <1>6 DEF ServerInv, NetTypeOK
  <1>8. at' \in Entries /\ srv' \in {"scan", "select"}
    BY <1>3, NextEntryType DEF ServerInv
  <1>9. /\ client_reads' \in [Entries -> Int] /\ client_reads'[i] = client_reads[i] + z
        /\ \A e \in Entries \ {i} : client_reads'[e] = client_reads[e]
    BY <1>2, <1>4, <1>5 DEF ServerInv, ServerTypeOK
  <1>10. ServerTypeOK'
    BY <1>3, <1>8, <1>9 DEF ServerInv, ServerTypeOK
  <1>11. EndInv'
    BY <1>3, <1>8 DEF ServerInv, EndInv
  <1>12. inbox'[s] = Without(inbox[s], z) /\ \A t \in Conns \ {s} : inbox'[t] = inbox[t]
    BY <1>2, <1>5 DEF ServerInv, NetTypeOK
  <1>13. Debt(s)' = Debt(s)
    BY <1>3 DEF Debt
  <1>14. Books(s, client_reads[i])'
    BY <1>3, <1>4, <1>5, <1>6, <1>9, <1>12, <1>13 DEF Books
  <1>15. (client_reads[i] + Debt(s) >= 0)'
    BY <1>4, <1>5, <1>9, <1>13
  <1> QED
    BY <1>1, <1>3, <1>7, <1>8, <1>9, <1>10, <1>11, <1>12, <1>14, <1>15, ScannedEntryKeeps

(* A failed call is counted as -1. *)
LEMMA ReceiveErrorKeeps ==
    ASSUME ServerConstants, ServerInv, ReceiveError
    PROVE  ServerInv'
  <1>1. PICK i, s : Scanned(i, s)
    BY DEF ReceiveError, Scanned
  <1>2. /\ rx[s] = "err"
        /\ client_reads' = [client_reads EXCEPT ![i] = @ - 1]
        /\ rx' = [rx EXCEPT ![s] = "eof"]
    BY <1>1 DEF ReceiveError, Scanned
  <1>3. /\ NextEntry /\ srv = "scan"
        /\ UNCHANGED <<client_socket, readfds, open, total, link, sent, air, inbox, lost, backlog>>
    BY DEF ReceiveError
  <1>4. /\ i \in Entries /\ s \in Conns /\ link[s] # "none"
        /\ Books(s, client_reads[i])
        /\ client_reads[i] \in Int /\ client_reads[i] + Debt(s) >= 0
        /\ sent[s] \in Int /\ lost[s] \in Int
        /\ Volume(air[s]) \in Int /\ Volume(inbox[s]) \in Int
    BY <1>1, ScannedConnection
  <1>5. rx' \in [Conns -> {"more", "eof", "err"}] /\ rx'[s] = "eof"
        /\ \A t \in Conns \ {s} : rx'[t] = rx[t]
    BY <1>2, <1>4 DEF ServerInv, NetTypeOK
  <1>6. NetTypeOK'
    BY <1>3, <1>5 DEF ServerInv, NetTypeOK
  <1>7. at' \in Entries /\ srv' \in {"scan", "select"}
    BY <1>3, NextEntryType DEF ServerInv
  <1>8. /\ client_reads' \in [Entries -> Int] /\ client_reads'[i] = client_reads[i] - 1
        /\ \A e \in Entries \ {i} : client_reads'[e] = client_reads[e]
    BY <1>2, <1>4 DEF ServerInv, ServerTypeOK
  <1>9. ServerTypeOK'
    BY <1>3, <1>7, <1>8 DEF ServerInv, ServerTypeOK
  <1>10. link[s] = "reset" /\ air[s] = Empty
    BY <1>2, <1>4 DEF ServerInv, EndInv
  <1>11. EndInv'
    BY <1>3, <1>5, <1>10 DEF ServerInv, EndInv
  <1>12. Debt(s) = 0 /\ Debt(s)' = 1
    BY <1>2, <1>3, <1>5, <1>10 DEF Debt
  <1>13. Books(s, client_reads[i])'
    BY <1>3, <1>4, <1>8, <1>12 DEF Books
  <1>14. (client_reads[i] + Debt(s) >= 0)'
    BY <1>4, <1>8, <1>12
  <1> QED
    BY <1>1, <1>3, <1>5, <1>6, <1>7, <1>8, <1>9, <1>11, <1>13, <1>14, ScannedEntryKeeps

(* The end of a connection: its total is printed and its entry is free.    *)
LEMMA ReceiveEndKeeps ==
    ASSUME ServerConstants, ServerInv, ReceiveEnd
    PROVE  ServerInv'
  <1>1. PICK i, s : Scanned(i, s)
    BY DEF ReceiveEnd, Scanned
  <1>2. /\ inbox[s] = Empty /\ rx[s] = "eof"
        /\ total' = [total EXCEPT ![s] = client_reads[i]]
        /\ open' = open \ {s}
        /\ client_socket' = [client_socket EXCEPT ![i] = Free]
        /\ client_reads' = [client_reads EXCEPT ![i] = 0]
    BY <1>1 DEF ReceiveEnd, Scanned
  <1>3. NextEntry /\ srv = "scan" /\ UNCHANGED <<readfds, netVars>>
    BY DEF ReceiveEnd
  <1>4. /\ i \in Entries /\ s \in Conns /\ client_socket[i] = s
        /\ link[s] # "none" /\ total[s] = NoTotal
        /\ \A x \in Entries : client_socket[x] = s => x = i
        /\ \A k \in DOMAIN backlog : backlog[k] \in Conns \ {s}
        /\ Books(s, client_reads[i])
        /\ client_reads[i] \in Int /\ client_reads[i] + Debt(s) >= 0
        /\ Debt(s) \in {0, 1}
    BY <1>1, ScannedConnection
  <1>5. NetTypeOK'
    BY <1>3 DEF ServerInv, NetTypeOK, netVars
  <1>6. at' \in Entries /\ srv' \in {"scan", "select"}
    BY <1>3, NextEntryType DEF ServerInv
  <1>7. /\ total'[s] = client_reads[i] /\ client_reads'[i] = 0 /\ client_socket'[i] = Free
        /\ \A t \in Conns \ {s} : total'[t] = total[t]
        /\ \A e \in Entries \ {i} :
              client_reads'[e] = client_reads[e] /\ client_socket'[e] = client_socket[e]
    BY <1>2, <1>4 DEF ServerInv, ServerTypeOK
  <1>8. ServerTypeOK'
    BY <1>2, <1>3, <1>4, <1>6 DEF ServerInv, ServerTypeOK
  <1>9. EndInv'
    BY <1>3, <1>6 DEF ServerInv, EndInv, netVars
  <1>10. total'[s] # NoTotal
    BY <1>4, <1>7 DEF NoTotal
  <1>11. \A t \in Conns, e \in Entries :
            client_socket'[e] = t <=> (client_socket[e] = t /\ t # s)
    BY <1>4, <1>7 DEF ServerConstants
  <1>12. PlaceInv'
    <2>1. \A k \in DOMAIN backlog' :
            /\ link'[backlog'[k]] # "none" /\ total'[backlog'[k]] = NoTotal
            /\ \A e \in Entries : client_socket'[e] # backlog'[k]
      BY <1>3, <1>4, <1>7, <1>11 DEF ServerInv, PlaceInv, InTable, netVars
    <2>2. ASSUME NEW e \in Entries, client_socket'[e] \in Conns
          PROVE  /\ link'[client_socket'[e]] # "none" /\ total'[client_socket'[e]] = NoTotal
                 /\ \A x \in Entries : client_socket'[x] = client_socket'[e] => x = e
      <3> DEFINE t == client_socket'[e]
      <3>1. t \in Conns \ {s} /\ client_socket[e] = t
        BY <1>11, <2>2
      <3>2. link[t] # "none" /\ total[t] = NoTotal
            /\ \A x \in Entries : client_socket[x] = t => x = e
        BY <1>3, <3>1 DEF ServerInv, PlaceInv
      <3> QED
        BY <1>3, <1>7, <1>11, <3>1, <3>2 DEF netVars
    <2> QED
      BY <1>3, <2>1, <2>2 DEF ServerInv, PlaceInv, InTable, netVars
  <1>13. \A t \in Conns, n \in Int : Debt(t)' = Debt(t) /\ (Books(t, n)' <=> Books(t, n))
    BY <1>3 DEF Debt, Books, netVars
  <1>14. CountInv'
    <2>1. \A e \in Entries : client_reads[e] \in Int
      BY DEF ServerInv, ServerTypeOK
    <2>2. \A t \in Conns : total[t] \in Int
      BY DEF ServerInv, ServerTypeOK
    <2>3. \A e \in Entries : client_socket'[e] = Free => client_reads'[e] = 0
      BY <1>3, <1>7 DEF ServerInv, CountInv
    <2>4. ASSUME NEW e \in Entries, client_socket'[e] \in Conns
          PROVE  /\ Books(client_socket[e], client_reads[e])'
                 /\ (client_reads[e] + Debt(client_socket[e]) >= 0)'
      <3>1. e # i
        BY <1>7, <2>4 DEF ServerConstants
      <3>2. client_socket'[e] = client_socket[e] /\ client_reads'[e] = client_reads[e]
        BY <1>7, <3>1
      <3>3. Books(client_socket[e], client_reads[e])
            /\ client_reads[e] + Debt(client_socket[e]) >= 0
        BY <1>3, <2>4, <3>2 DEF ServerInv, CountInv
      <3> QED
        BY <1>3, <3>2, <3>3 DEF Books, Debt, netVars
    <2>5. ASSUME NEW t \in Conns, total'[t] = NoTotal, \A e \in Entries : client_socket'[e] # t
          PROVE  Books(t, 0)' /\ Debt(t)' = 0
      <3>1. t # s /\ total[t] = NoTotal
        BY <1>7, <1>10, <2>5
      <3>2. \A e \in Entries : client_socket[e] # t
        BY <1>11, <2>5, <3>1
      <3> QED
        BY <1>3, <1>13, <3>1, <3>2 DEF ServerInv, CountInv, InTable
    <2>6. ASSUME NEW t \in Conns, total'[t] # NoTotal
          PROVE  /\ rx'[t] = "eof" /\ link'[t] \in {"fin", "reset"}
                 /\ inbox'[t] = Empty /\ Books(t, total[t])'
      <3>1. CASE t = s
        <4>1. link[s] \in {"fin", "reset"}
          BY <1>2, <1>3, <1>4 DEF ServerInv, EndInv, NetTypeOK
        <4> QED
          BY <1>2, <1>3, <1>4, <1>7, <3>1, <4>1 DEF Books, Debt, netVars
      <3>2. CASE t # s
        <4>1. total'[t] = total[t]
          BY <1>7, <3>2
        <4> QED
          BY <1>3, <1>13, <2>2, <2>6, <4>1 DEF ServerInv, CountInv, netVars, Books, Debt
      <3> QED
        BY <3>1, <3>2
    <2> QED
      BY <2>3, <2>4, <2>5, <2>6 DEF CountInv, InTable
  <1> QED
    BY <1>5, <1>8, <1>9, <1>12, <1>14 DEF ServerInv

(* What the loop does when the calls it depends on succeed. *)
LEMMA ServeKeeps ==
    ASSUME ServerConstants, ServerInv, Serve
    PROVE  ServerInv'
  BY SelectKeeps, AcceptKeeps, SkipKeeps, ReceiveKeeps, ReceiveEndKeeps, ReceiveErrorKeeps
     DEF Serve

(* exit(): the totals that have been printed stay true. *)
LEMMA ServerExitKeeps ==
    ASSUME ServerConstants, ServerInv, ServerExit
    PROVE  ServerInv'
  <1> USE DEF ServerExit, DropAll
  <1>1. \A s \in Conns : Volume(air[s]) \in Nat /\ Volume(inbox[s]) \in Nat
    BY VolumeType DEF ServerInv, NetTypeOK
  <1>2. NetTypeOK'
    BY <1>1, EmptyBag DEF ServerInv, NetTypeOK
  <1>3. ServerTypeOK'
    BY DEF ServerInv, ServerTypeOK
  <1>4. EndInv' /\ PlaceInv'
    BY DEF EndInv, PlaceInv
  <1>5. ASSUME NEW t \in Conns, total'[t] # NoTotal
        PROVE  /\ rx'[t] = "eof" /\ link'[t] \in {"fin", "reset"}
               /\ inbox'[t] = Empty /\ Books(t, total[t])'
    <2>1. /\ rx[t] = "eof" /\ link[t] \in {"fin", "reset"}
          /\ inbox[t] = Empty /\ Books(t, total[t])
      BY <1>5 DEF ServerInv, CountInv
    <2>2. air[t] = Empty
      BY <2>1 DEF ServerInv, EndInv
    <2>3. /\ link'[t] = link[t] /\ rx'[t] = rx[t] /\ air'[t] = Empty /\ inbox'[t] = Empty
          /\ lost'[t] = lost[t] + 0 + 0
      BY <2>1, <2>2, VolumeEmpty
    <2>4. lost[t] \in Nat
      BY DEF ServerInv, NetTypeOK
    <2> QED
      BY <2>1, <2>2, <2>3, <2>4 DEF Books, Debt
  <1>6. CountInv'
    BY <1>5 DEF CountInv
  <1> QED
    BY <1>2, <1>3, <1>4, <1>6 DEF ServerInv

-----------------------------------------------------------------------------
(* A total is right when the books are.                                    *)
LEMMA BooksGiveTotals ==
    ASSUME ServerConstants, ServerInv
    PROVE  TotalIsWhatArrived
  <1> SUFFICES ASSUME NEW s \in Conns, total[s] # NoTotal
               PROVE  total[s] + lost[s] =
                            IF link[s] = "reset" THEN sent[s] - 1 ELSE sent[s]
    BY DEF TotalIsWhatArrived
  <1>1. rx[s] = "eof" /\ inbox[s] = Empty /\ Books(s, total[s])
    BY DEF ServerInv, CountInv
  <1>2. air[s] = Empty
    BY <1>1 DEF ServerInv, EndInv
  <1>3. total[s] \in Int /\ lost[s] \in Int /\ sent[s] \in Int
    BY DEF ServerInv, ServerTypeOK, NetTypeOK
  <1> QED
    BY <1>1, <1>2, <1>3, VolumeEmpty DEF Books, Debt
=============================================================================
