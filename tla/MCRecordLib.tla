----------------------------- MODULE MCRecordLib -----------------------------
EXTENDS RecordLib
=============================================================================
