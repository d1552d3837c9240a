SPECIFICATION MCSpec
CONSTANTS
    MaxWrites = 3
    MaxAborts = 1
    MaxPasses = 3
    MaxBoth = 5
    Window = 1
    i1 = i1
    i2 = i2
    main = main
    sub = sub
    chat = chat
    rollout = rollout
    archived = archived
    history = history
    opencode = opencode
    devin = devin
    s1 = s1
    s2 = s2
    s3 = s3
    s4 = s4
    s5 = s5
    s6 = s6
    s7 = s7
    s8 = s8
    s9 = s9
    None = None
    Absent = Absent
    LexicalOnly = {}
    Ingesters = {i1, i2}
    Agent <- MCAgent
    Conv <- MCConv
    ParentOf <- MCParentOf
SYMMETRY Symmetric
INVARIANTS
    TypeOK
    UnchangedIsStored
    RecordedIsStored
    LinksNeverMislead
CHECK_DEADLOCK FALSE
