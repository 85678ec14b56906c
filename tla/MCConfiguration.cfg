SPECIFICATION Spec
CONSTANTS
    Database = {d1, d2}
    None = None
    Torn = Torn
SYMMETRY Symmetry
INVARIANT RunsOnLastOrFirst
INVARIANT MigratedUnlessMoved
