-------------------------- MODULE MCCaptureSessions --------------------------
EXTENDS CaptureSessions
=============================================================================
