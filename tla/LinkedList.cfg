\* Three node addresses and two pids: lists of up to three entries with a
\* pid held twice, every operation from every reachable shape.
CONSTANTS
    n1 = n1
    n2 = n2
    n3 = n3
    v1 = v1
    v2 = v2
    Nodes = {n1, n2, n3}
    Values = {v1, v2}
    HeadN = HeadN
    TailN = TailN
    Null = Null
SPECIFICATION Spec
INVARIANT TypeOK
INVARIANT DoublyLinked
PROPERTY ImplementsListSeq
