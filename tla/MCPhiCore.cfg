CONSTANTS
    MaxTickets = 5
    Capacity = 3
    Hash <- MCHash
    Absent = Absent
    MaxSize = 6
SPECIFICATION Spec
INVARIANT CreatedTicketsFound
