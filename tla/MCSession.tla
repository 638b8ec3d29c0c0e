----------------------------- MODULE MCSession -----------------------------
(* Small values for Session. *)
EXTENDS Session

One(body) == <<PushReplyMsg(body, FALSE)>>
Two(a, b) == <<PushReplyMsg(a, TRUE), PushReplyMsg(b, FALSE)>>

\* An answer of each kind, some of them in two parts.
MCPushLists ==
    {One("token"), One("malformed"), One("unusable"), One("compress"), Two("token", "plain"), Two("plain", "rejected")}

MCInfos == <<[pre |-> TRUE, web |-> TRUE], [pre |-> FALSE, web |-> FALSE], [pre |-> FALSE, web |-> FALSE]>>

MCConfigs ==
    {[relay |-> FALSE, password |-> TRUE, retry |-> TRUE, auth_nocache |-> TRUE, inactive |-> FALSE],
     [relay |-> FALSE, password |-> TRUE, retry |-> FALSE, auth_nocache |-> FALSE, inactive |-> FALSE],
     [relay |-> FALSE, password |-> FALSE, retry |-> TRUE, auth_nocache |-> FALSE, inactive |-> TRUE],
     [relay |-> TRUE, password |-> FALSE, retry |-> FALSE, auth_nocache |-> FALSE, inactive |-> FALSE]}

=============================================================================
