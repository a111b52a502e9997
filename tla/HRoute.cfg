SPECIFICATION Spec
CONSTANTS
    Roots <- MCRoots
    Folders <- MCFolders
    Tree <- MCTree
    Definitions <- MCDefinitions
    LRU_COUNT = 2
    RootApi <- MCRootApi
    RootBase <- MCRootBase
    Aliases <- MCAliases
    HttpRoot = "http"
    RootDir = "dir"
    DefaultLocale <- MCDefault
    Requests <- MCRequests
    Beyond <- MCBeyond
    Files <- MCFiles
INVARIANTS
    SearchesAreCounted
    ServedForItsLanguages
    RoutedByPrefix
    ArgumentsAreComplete

