-------------------------------- MODULE Option -------------------------------
CONSTANT None      \* Option::None
=============================================================================
