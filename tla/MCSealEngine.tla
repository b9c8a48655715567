---------------------------- MODULE MCSealEngine ----------------------------
EXTENDS SealEngine
=============================================================================
