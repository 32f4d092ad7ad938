CONSTANTS
    number_of_clients = 2
    Settings <- SomeSettings
    MinBytes = 10
    IncBytes = 50
    MaxBytes = 110
    remove_output_dir = {TRUE, FALSE}
    Removed <- AllKinds
    IntMax = 255
    MaxStarts = 2
    MaxTrouble = 2
SPECIFICATION Spec
INVARIANTS RowsInStep SpaceIsSaved SettingsArrive
