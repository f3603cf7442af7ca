---------------------------- MODULE MCExperience ----------------------------
EXTENDS Experience
\* two situations that match each other
Situations == {{"auth"}, {"auth", "cache"}}
=============================================================================
