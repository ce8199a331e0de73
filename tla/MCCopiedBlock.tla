--------------------------- MODULE MCCopiedBlock ---------------------------
EXTENDS CopiedBlock
=============================================================================
