----------------------------- MODULE MCDspLife -----------------------------
EXTENDS DspLife
CONSTANTS l1, l2, l3
=============================================================================
