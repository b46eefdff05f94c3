---------------------------------- MODULE MCAgent ----------------------------------
(* Instances of Agent for TLC. *)
EXTENDS Agent, TLC

CONSTANTS c1, c2, ed, rsa

Add(x, cs) == [op |-> "add", key |-> x, constraints |-> cs]
SignWith(x, h) == [op |-> "sign", key |-> x, hash |-> h]
Base64With(x) == [op |-> "sign_base64", key |-> x, hash |-> FALSE]
SignatureOf(x) == [op |-> "sign_signature", key |-> x, hash |-> FALSE]
Locks(p) == [op |-> "lock", password |-> <<p>>]
Unlocks(p) == [op |-> "unlock", password |-> <<p>>]
Removes(x) == [op |-> "remove", key |-> x]
Asks(op) == [op |-> op]

Programs(p1, p2, d) == [program |-> (c1 :> p1 @@ c2 :> p2), drops |-> d]

\* Keys that expire, are removed and added again; locks from two sides; requests the
\* agent does not know; calls that are dropped.
AllSetups == {
    Programs(<<Add(ed, <<"KeyLifetime">>), Add(ed, <<>>), SignWith(ed, FALSE)>>,
             <<Add(ed, <<"KeyLifetime", "Confirm">>), Removes(ed)>>, FALSE),
    Programs(<<Add(rsa, <<"KeyLifetime", "Extensions">>), Add(rsa, <<"KeyLifetime">>),
               SignWith(rsa, TRUE)>>,
             <<Removes(rsa), Base64With(rsa), Asks("identities")>>, FALSE),
    Programs(<<Locks("p"), Add(ed, <<>>), Unlocks("p"), Asks("add_smartcard")>>,
             <<Locks("q"), SignWith(ed, FALSE), Unlocks("q")>>, FALSE),
    Programs(<<Add(ed, <<"Confirm">>), Asks("remove_all"), SignWith(ed, FALSE)>>,
             <<Asks("query_extension"), Asks("identities")>>, FALSE),
    Programs(<<Add(ed, <<"KeyLifetime">>), SignatureOf(ed), Add(ed, <<"KeyLifetime">>)>>,
             <<Asks("clear"), Asks("clear")>>, FALSE),
    Programs(<<Add(ed, <<>>), SignWith(ed, FALSE), Asks("extension")>>,
             <<Removes(ed), Asks("remove_smartcard"), Asks("identities")>>, TRUE)}

\* One client signs while another locks the agent.
Locking == {Programs(<<Add(ed, <<>>), SignWith(ed, FALSE)>>, <<Locks("p")>>, FALSE)}
=============================================================================
