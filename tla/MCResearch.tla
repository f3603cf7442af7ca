----------------------------- MODULE MCResearch -----------------------------
EXTENDS Research
CONSTANTS c1, c2, c3, page, docs, passage
=============================================================================
