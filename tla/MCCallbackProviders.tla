------------------------ MODULE MCCallbackProviders ------------------------
(* The instance of CallbackProviders that TLC checks.                      *)
EXTENDS CallbackProviders

CONSTANTS t1, t2

MCThreads == {t1, t2}
MCRaised == {"clientReady", "streamClosed", "bufferDurationOverflowPressure",
             "getSecurityToken", "streamShutdown"}
============================================================================
