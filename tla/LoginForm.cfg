\* Edits of up to 21 characters, enough to fill and to cut both fields at once.
SPECIFICATION Spec
CONSTANT
    Paste = 21
INVARIANTS
    TypeOK
    OneTextIsFine
