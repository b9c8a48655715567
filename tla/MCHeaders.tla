----------------------------- MODULE MCHeaders -----------------------------
EXTENDS Headers

List2 == <<"v1", "v2">>
List4 == <<"v1", "v2", "v3", "v4">>
=============================================================================
