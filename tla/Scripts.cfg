SPECIFICATION Spec
CONSTANTS
    Views = {"/api/hassio", "/api/hassio_auth"}
INVARIANTS
    NothingIsDropped
    NothingIsInvented
    LexerReadsWhatWasWritten
    SurfaceIsWhatCoreRegisters
CHECK_DEADLOCK FALSE
