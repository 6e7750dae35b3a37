SPECIFICATION Spec
CONSTANTS
    Run = {"a1", "a2", "b", "r"}
    User = {"alice", "bob", "root"}
    UserOf <- WhoRuns
    Root = "root"
    Dir = {"run", "lock", "tmp", "home", "cwd"}
    NoDir = "none"
    Standard <- ThreeDirs
    Home <- OwnHome
    Cwd <- OneCwd
    Given = {"none", "tmp"}
    Creators <- Makers
    Before <- AnyBefore
INVARIANT TypeOK OneHolderUnlessRaced UsersApart NoDirForAReason
