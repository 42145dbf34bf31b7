\* The default configuration, with notes indexed as they are written.
CONSTANTS
    Docs = {guide, note}
    Notes = {note}
    Quoted = {}
    Configs <- DefaultConfigs
    MaxCommit = 2
    MaxVersion = 3
SPECIFICATION Spec
INVARIANT CurrentMeansIndexed
