-------------------------- MODULE MCEndpointStore ---------------------------
(* Small instances of EndpointStore for TLC.                               *)
EXTENDS EndpointStore

CONSTANTS a1, a2

Message(a, epoch, deadline, until, version) ==
  [attempt |-> a, epoch |-> epoch, deadline |-> deadline, until |-> until, version |-> version]

\* One envelope that can execute, one that conflicts with it.
MCEnvelopes == {Message(a1, 0, 1, 3, 1), Message(a2, 1, 2, 2, 1)}
MCQueries == {Message(a1, 0, 1, 3, 1), Message(a1, 1, 1, 3, 1), Message(a2, 1, 2, 3, 1)}

=============================================================================
