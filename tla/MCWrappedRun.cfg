SPECIFICATION Spec
CONSTANTS
    p = p
    q = q
    a = a
    b = b
    Absent = Absent
    Paths = {p, q}
    Contents = {a, b}
    Secret = {p}
    FirstFiles <- MCFirstFiles
    MaxEdits = 2
    MaxSamples = 2
    MaxPayloads = 1
    MaxOutputs = 1

    
PROPERTIES
    
    WrapperExits
CHECK_DEADLOCK FALSE
