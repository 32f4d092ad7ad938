CONSTANTS
    Files = {"tcp.dat", "udp.dat", "none.dat"}
    Existing = {"tcp.dat", "udp.dat"}
    MaxFiles = 2
SPECIFICATION PlotSpec
INVARIANTS ShowsWhatItSays
