------------------------ MODULE MCLockFreeConnection ------------------------
EXTENDS LockFreeConnection
=============================================================================
