----------------------------- MODULE MCPiTunnel -----------------------------
(* Small instances of PiTunnel.                                            *)
EXTENDS PiTunnel, TLC

CONSTANTS n1, n2, c1, c2

In(socks, frames, ordered, faults) ==
    [socks |-> socks, frames |-> frames, ordered |-> ordered, faults |-> faults]

\* Two clients of a node that answers late; a device that reconnects; a
\* session with more frames than its buffers hold; a device that is revoked.
Clients == In({n1, c1, c2}, 1, FALSE, {"closes"})
Reconnect == In({n1, n2, c1}, 0, TRUE, {"closes", "pollFails", "revoke"})
Session == In({n1, c1}, 4, TRUE, {})
Revoked == In({n1, c1, c2}, 0, TRUE, {"revoke"})
MCSetups == {Clients, Reconnect, Session, Revoked}

LateSetups == {In({n1, c1, c2}, 0, FALSE, {})}
=============================================================================
