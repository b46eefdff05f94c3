----------------------------- MODULE MCUserAuth -----------------------------
(* Small instances of UserAuth. *)
EXTENDS UserAuth

M(k, u, c) == [kind |-> k, user |-> u, cred |-> c]
SomeAttempts ==
  {M("none", "u1", "bad"), M("password", "u1", "good"), M("password", "u2", "bad"),
   M("publickey", "u1", "good"), M("future", "u2", "good"), M("cert", "u1", "expired"),
   M("keyboard", "u1", "good"), M("keyboard", "u2", "bad")}
SomeProceed == {{}, {"password", "publickey"}}
=============================================================================
