------------------------------ MODULE MCCopas -------------------------------
EXTENDS Copas
CONSTANTS a, b, c, s1, s2
\* A proxy: a handles the connection s1 and reads it, b writes to it what it reads
\* from s2, a connection to elsewhere, and c writes to that one.
OneReader == [s \in Clients |-> CASE s = s1 -> {a} [] s = s2 -> {b}]
OneWriter == [s \in Clients |-> CASE s = s1 -> {b} [] s = s2 -> {c}]
Handlers == [s \in Clients |-> CASE s = s1 -> a [] s = s2 -> Nil]
=============================================================================
