---------------------------- MODULE MCDescriptorSet ----------------------------
\* Every import graph over three files, circular ones and files that import
\* themselves included; two services in two of the files.
EXTENDS DescriptorSet, TLC

CONSTANTS a, b, c, s1, s2

MCFiles == {a, b, c}
MCFileOf == s1 :> a @@ s2 :> b
MCNodes == [MCFiles -> SUBSET MCFiles]
=============================================================================
