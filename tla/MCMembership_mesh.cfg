SPECIFICATION FairSpec
CONSTANTS
    n1 = n1
    n2 = n2
    n3 = n3
    Nodes = {n1, n2, n3}
    Clusters <- MCStar
    MaxConns = 4
    None = None
PROPERTY
    MeshForms
CHECK_DEADLOCK FALSE
CONSTRAINT InTime
