SPECIFICATION Spec
CONSTANTS
    Checks <- AllChecks
    SecretData <- SomeSecrets
    NoSecret = NoSecret
    NoDir = NoDir
    Pending = Pending
INVARIANTS TypeOK SuccessIsVerified ReasonIsRight FilesOnlyToConnect
