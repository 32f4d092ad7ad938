CONSTANTS
    number_of_clients = 2
    Settings <- SomeSettings
    MinBytes = 10
    IncBytes = 50
    MaxBytes = 110
    remove_output_dir = {TRUE, FALSE}
    Removed <- AllKinds
    IntMax = 255
    MaxStarts = 1
    MaxTrouble = 0
SPECIFICATION Spec
INVARIANTS UnorderedAsSet
