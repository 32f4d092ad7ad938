------------------------------ MODULE Plotting ------------------------------
(***************************************************************************)
(* NSplot.cc, which draws the results.  Their rows are written by          *)
(* insertTotalData() (DataParser.cc); the two programs agree on the        *)
(* meaning of a column by its number only.  Columns are named by what they *)
(* hold, and the number in the menu is the one that setLabel() looks up.   *)
(***************************************************************************)
EXTENDS Integers, Sequences

CONSTANTS
    Files,     \* the names a user may give
    Existing,  \* those of result files that exist
    MaxFiles   \* bound: files of a call

ASSUME FilesAssumption == Existing \subseteq Files /\ MaxFiles \in Nat

(* The row, as insertTotalData() writes it. *)
Written == <<"frames", "time", "data", "useful", "expected", "useful%", "loss%", "speed",
         "frame size", "chunks", "chunk size", "clients", "streams">>

(* Mistake: the labels of the format without the expected data. *)
ParametersOldFormat == <<"frames", "time", "data", "useful", "useful%", "loss%", "speed",
         "frame size", "chunks", "chunk size", "clients", "streams", "expected">>

(* parameters[] *)
Parameters == <<"frames", "time", "data", "useful", "expected", "useful%", "loss%", "speed",
         "frame size", "chunks", "chunk size", "clients", "streams">>

VARIABLES
    given, dimensions,  \* the arguments
    stage,              \* select columns, look at the files, drawn or exited
    columns, labels,    \* of the axes, in their order
    action,             \* the files of the plot command
    next                \* the argument that is looked at next

plotVars == <<given, dimensions, stage, columns, labels, action, next>>
arguments == <<given, dimensions>>

Lists == UNION {[1 .. n -> Files] : n \in 0 .. MaxFiles}

PlotInit ==
    /\ given \in Lists /\ dimensions \in {2, 3, 0}
    /\ stage = "select"
    /\ columns = << >> /\ labels = << >> /\ action = << >>
    /\ next = 1

-----------------------------------------------------------------------------
(* The constructor, selectColumns() and setLabel(): a column for each      *)
(* axis, by its number in the menu.  A wrong dimension flag ends the       *)
(* program.                                                                *)
SelectColumns ==
    /\ stage = "select"
    /\ \/ dimensions = 0 /\ stage' = "exited" /\ UNCHANGED <<columns, labels>>
       \/ /\ dimensions # 0
          /\ columns' \in [1 .. dimensions -> DOMAIN Parameters]
          /\ labels' = [a \in 1 .. dimensions |-> Parameters[columns'[a]]]
          /\ stage' = "files"
    /\ UNCHANGED <<arguments, action, next>>

(* Mistake: a 2D plot starts again with each file. *)
SetActionReplaces ==
    /\ stage = "files" /\ next <= Len(given)
    /\ \/ given[next] \notin Existing /\ stage' = "exited" /\ UNCHANGED <<action, next>>
       \/ /\ given[next] \in Existing
          /\ action' = <<given[next]>>
          /\ next' = next + 1
          /\ UNCHANGED stage
    /\ UNCHANGED <<arguments, columns, labels>>

(* setAction(): a file that cannot be opened ends the program; in a 3D     *)
(* plot each file replaces the one before it.                              *)
SetAction ==
    /\ stage = "files" /\ next <= Len(given)
    /\ \/ given[next] \notin Existing /\ stage' = "exited" /\ UNCHANGED <<action, next>>
       \/ /\ given[next] \in Existing
          /\ action' = IF dimensions = 3 THEN <<given[next]>> ELSE Append(action, given[next])
          /\ next' = next + 1
          /\ UNCHANGED stage
    /\ UNCHANGED <<arguments, columns, labels>>

(* main() behind the loop: a 3D plot of more than one file is refused. *)
Draw ==
    /\ stage = "files" /\ next > Len(given)
    /\ stage' = IF dimensions = 3 /\ Len(given) # 1 THEN "exited" ELSE "drawn"
    /\ UNCHANGED <<arguments, columns, labels, action, next>>

PlotStops == stage \in {"drawn", "exited"} /\ UNCHANGED plotVars

PlotNext == SelectColumns \/ SetAction \/ Draw \/ PlotStops

PlotSpec == PlotInit /\ [][PlotNext]_plotVars

-----------------------------------------------------------------------------
(* A graph shows all files that were given, and the label of each axis     *)
(* names what the parser has written into the column it shows.             *)
ShowsWhatItSays ==
    stage = "drawn" =>
        /\ action = given
        /\ \A a \in 1 .. dimensions : labels[a] = Written[columns[a]]
=============================================================================
