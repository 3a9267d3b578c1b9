---------------------------- MODULE MCEventLoop ----------------------------
EXTENDS EventLoop
=============================================================================
