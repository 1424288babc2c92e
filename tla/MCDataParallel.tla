--------------------------- MODULE MCDataParallel ---------------------------
EXTENDS DataParallel
=============================================================================
