SPECIFICATION Spec
CONSTANT Nil = Nil
INVARIANTS  CopyIsPrivate
