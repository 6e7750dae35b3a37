SPECIFICATION Spec
CONSTANTS
    Run = {"a1", "a2"}
    User = {"alice", "root"}
    UserOf <- WhoRuns
    Root = "root"
    Dir = {"run", "lock", "tmp", "home", "cwd"}
    NoDir = "none"
    Standard <- ThreeDirs
    Home <- OwnHome
    Cwd <- OneCwd
    Given = {"none"}
    Creators <- Makers
    Before <- AnyBefore
INVARIANT OneHolder
