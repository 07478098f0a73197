CONSTANTS
    noarch = noarch
    x86_64 = x86_64
    word = word
    a = a
    b = b
    Folders = {noarch, x86_64}
    Root = Root
    Files = {a, b}
    Texts = {word}
    Matches <- MCMatches
    Module = Module
    ModuleName = ModuleName
    None = None
    MaxRequests = 4
    MaxInfos = 2
SPECIFICATION Spec
SYMMETRY Symmetry
INVARIANT TypeOK
INVARIANT SpinnerHasCause
INVARIANT FlagMatchesRow
INVARIANT GridShowsFolder
INVARIANT MarkedIsSelected
INVARIANT PanelMatchesSelection
INVARIANT BoxShowsFilter
