CONSTANTS
    FTP_LOOP_ERROR_LIMIT = 3
SPECIFICATION FairSpec
INVARIANTS LibraryProtocol
PROPERTIES StartIsObeyed StopIsObeyed
