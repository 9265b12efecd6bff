SPECIFICATION Spec
CONSTANTS
    N = 3
    Kid = {k1}
    Thread = {t1, t2}
    Scoped = {t1}
    MaxQueries = 3
INVARIANTS OneOwner OnlyDeclared MaskRespected ContextCovers
