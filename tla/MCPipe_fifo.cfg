SPECIFICATION Spec
CONSTANTS
    Readers = {r1}
    Writers = {w1}
    Capacity = 2
    UsizeMod = 4
    MaxBytes = 4
    Builds = {FALSE}
    Fifo = TRUE
PROPERTY IsChannel
CHECK_DEADLOCK FALSE
