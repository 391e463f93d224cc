SPECIFICATION Spec
CONSTANTS
    Session = {s1, s2}
    Schema = {"", "main", "other"}
    Entry = {e1, e2, e3}
    None = None
SYMMETRY CatalogSymmetry
INVARIANT
    NamesStableWhileRead
