SPECIFICATION GeneratorSpec
CONSTANTS
    Precision = 1
    Caps = {10, 12, 15, 18, 20, 22, 23, 24, 25, 26, 27, 30, 35, 40, 45}
    Blocks = {3}
    Draws <- MCDraws
    MaxEmits = 2
INVARIANTS
    OnlyFoundersAreRefused
    MonitorAgrees
    ValidatedSmokeCompletes
    StoredIsOneBundle
CHECK_DEADLOCK FALSE
