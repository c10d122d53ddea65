SPECIFICATION Spec
CONSTANTS
    Base = 8
    Words = {0, 7, 63}
    Contents <- MCContents
    Lengths = {19, 20, 28, 39, 40, 47, 48, 60, 68}
    DefaultMss <- MCMss
    Names <- MCNames
    Damages = {1, 16, 128, 255}
    SignedChar = FALSE
    Fold <- MCFold
    Methods <- MCMethods
    HostKey <- MCHostKey
    HostHeaders <- MCHostHeaders
    Scheme <- MCScheme
    Slashes <- MCSlashes
    Paths <- MCPaths
    Hosts <- MCHosts
    Bodies <- MCBodies
    Behind <- MCBehind
    MaxHost = 6
    ByteValues = 16
    Flag = 4
    NameMax = 7
    Header = 2
    QuestionSize = 1
    AnswerSize = 1
    MessageBodies <- MCMessageBodies
    Strays = {0, 1, 12}
    MaxAnswers = 2
INVARIANTS
    TypeOK
    PayloadInside
    AnswersAreValid
    NameRead
    RequestPatched
    QuestionDecoded
PROPERTY
    EventuallyReturns
