---------------------------- MODULE MCKeyExchange ----------------------------
(* Small instances of KeyExchange. *)
EXTENDS KeyExchange

Names == {"curve25519", "dh-gex", "sntrup761", "ext-info-c", "ext-info-s", "kex-strict-c",
          "kex-strict-s", "ed25519", "rsa-sha2-512", "rsa-sha2-256", "chacha20", "aes256-ctr",
          "hmac-sha512", "hmac-sha256", "hmac-sha1", "zlib", "none"}

AllExtensions == <<"ext-info-c", "ext-info-s", "kex-strict-c", "kex-strict-s">>

(* Lists a side may prefer.  With aes256-ctr a common MAC is needed. *)
Preferred(methods, extensions, keys, ciphers, macs, compressions) ==
  [kex : {m \o e : m \in methods, e \in extensions}, key : keys, cipher : ciphers,
   mac : macs, compression : compressions]

Curve == <<"curve25519", "dh-gex">>
Group == <<"dh-gex", "curve25519">>
Keys == <<"ed25519", "rsa-sha2-512", "rsa-sha2-256">>
RsaKeys == <<"rsa-sha2-256", "ed25519">>
Ciphers == <<"chacha20", "aes256-ctr">>
Ctr == <<"aes256-ctr">>
Macs == <<"hmac-sha512", "hmac-sha256">>
Mac256 == <<"hmac-sha256">>
Zlib == <<"zlib", "none">>

Setup(clients, servers, keys, guess, noise, keepalive, bound) ==
  [pref : {[p \in Peers |-> IF p = "client" THEN c ELSE s] : c \in clients, s \in servers},
   keys : keys, guess : guess, noise : noise, keepalive : keepalive, rekeys : {bound}]

(* A side that supports everything, with and without the extensions. *)
Plain(methods) == Preferred(methods, {<<>>, AllExtensions}, {Keys}, {Ciphers}, {Macs},
                            {<<"none">>})

(* Re-exchanges by both methods, strict or not, without timers. *)
Quiet == Setup(Plain({Curve, Group}), Plain({Curve}), {<<"rsa">>}, {FALSE}, {FALSE}, {FALSE}, 3)

(* First exchanges between sides that prefer different things and may have   *)
(* nothing in common, with timers.                                           *)
First ==
  Setup(Preferred({Curve, Group, <<"curve25519">>}, {<<>>, AllExtensions}, {Keys, RsaKeys},
                  {Ciphers, Ctr}, {Macs, <<"hmac-sha1">>}, {Zlib}),
        Preferred({Curve, <<"dh-gex">>}, {AllExtensions}, {Keys}, {Ciphers, Ctr}, {Mac256},
                  {<<"none">>}),
        {<<"ed25519">>, <<"rsa">>}, {FALSE}, {FALSE}, {TRUE}, 0)

(* A server that sends something before its KEXINIT. *)
Noisy == Setup(Plain({Curve}), Plain({Curve}), {<<"rsa">>}, {FALSE}, {TRUE}, {TRUE}, 0)

(* A client that guesses, right or wrong, with a server that knows the method *)
(* it guesses and has no group exchange.                                      *)
Guessing ==
  Setup(Preferred({Curve, Group}, {AllExtensions}, {Keys, RsaKeys}, {Ciphers}, {Macs},
                  {<<"none">>}),
        Plain({<<"curve25519">>}), {<<"ed25519", "rsa">>}, {TRUE}, {FALSE}, {FALSE}, 1)

(* Re-exchanges with timers. *)
Timers ==
  Setup(Plain({Curve}), Plain({Curve}), {<<"rsa">>}, {FALSE}, {FALSE}, {TRUE}, 2)
  \cup Setup(Plain({Group}), Plain({Curve}), {<<"rsa">>}, {FALSE}, {FALSE}, {TRUE}, 1)

Usual == Quiet \cup First \cup Noisy \cup Guessing \cup Timers

(* A client whose guess is wrong: the server has only the group exchange, or *)
(* does not know the method guessed.                                         *)
WrongGuess ==
  Setup(Plain({Curve}), Plain({<<"dh-gex">>}), {<<"rsa">>}, {TRUE}, {FALSE}, {FALSE}, 0)
  \cup Setup(Plain({<<"sntrup761", "curve25519">>}), Plain({Curve}), {<<"ed25519">>}, {TRUE},
             {FALSE}, {FALSE}, 0)
=============================================================================
