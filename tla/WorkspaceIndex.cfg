\* A document, and a path for notes; every mode of a local repository.
CONSTANTS
    Docs = {guide, note}
    Notes = {note}
    Quoted = {}
    Configs <- SoundConfigs
    MaxCommit = 3
    MaxVersion = 4
SPECIFICATION Spec
INVARIANT TypeOK
INVARIANT CurrentMeansIndexed
INVARIANT IInv
