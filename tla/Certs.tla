------------------------------- MODULE Certs -------------------------------
(***************************************************************************)
(* certs.rs: the certificate authorities a host trusts, and the            *)
(* certificate and key pairs an administrator installs under /etc/ssl.     *)
(*                                                                         *)
(* The trust store is built from the anchor files by a command of the      *)
(* distribution; a file is trusted only once that command has run.         *)
(***************************************************************************)
EXTENDS HostCommand

CONSTANTS
    CertName,   \* names after they are made safe for a file
    Material    \* certificates and keys

VARIABLES
    distro,     \* what detect_distro makes of os-release
    anchor,     \* anchor[n]: the certificate in the anchor file n, or "none"
    trusted,    \* what the host trusts beyond its distribution's own
    crt,        \* crt[n]: the certificate in /etc/ssl/n.crt, "none", or "cut" when a write was
    keyOf,      \* keyOf[n]: the key in /etc/ssl/n.key, likewise
    private     \* the names whose key only root can read

trustVars == <<distro, anchor, trusted>>
pairVars  == <<crt, keyOf, private>>
certsVars == <<reply, trustVars, pairVars>>

Content == Material \cup {"none", "cut"}

CertsTypeOK ==
    /\ ReplyTyped
    /\ distro \in {"debian", "fedora", "arch", "unknown"}
    /\ anchor \in [CertName -> Content]
    /\ trusted \subseteq Material
    /\ {crt, keyOf} \subseteq [CertName -> Content]
    /\ private \subseteq CertName

\* The certificates in a set of anchor files, as update-ca-certificates, update-ca-trust extract
\* and trust extract-compat take them up.
Taken(files) == {files[n] : n \in CertName} \cap Material

CertsInit ==
    /\ reply = NoReply
    /\ distro \in StartsIn("trust", {"debian", "fedora", "arch", "unknown"})
    /\ anchor \in StartsIn("trust", [CertName -> Material \cup {"none"}])
    /\ trusted = Taken(anchor)
    /\ crt = [n \in CertName |-> "none"]
    /\ keyOf = [n \in CertName |-> "none"]
    /\ private = {}

-----------------------------------------------------------------------------
(* Files that are written in place. *)

Pem(old, new, started, done) == Teed(old, new, {"cut"}, started, done)

-----------------------------------------------------------------------------
(* The trust store. *)

\* trust_add: write the anchor, then build.  On Arch `trust anchor` does both from a temporary
\* file, and may be killed in between.
TrustAdd(n, m) ==
    /\ IF distro = "unknown"
       THEN Refuse /\ UNCHANGED <<anchor, trusted>>
       ELSE \E c \in Chain(2) :
                /\ \E file \in IF distro = "arch"
                               THEN Teed(anchor[n], m, {m}, c.done = 1, c.done = 2)
                               ELSE Pem(anchor[n], m, TRUE, c.done >= 1) :
                        anchor' = [anchor EXCEPT ![n] = file]
                /\ trusted' = IF c.done = 2 THEN Taken(anchor') ELSE trusted
                /\ Answer("trust_add", <<n, m>>, c.ok)
    /\ UNCHANGED <<distro, pairVars>>

\* Mutant: the store is built by no command after the removal.
TrustRemoveOnly(n) ==
    /\ anchor[n] # "none"
    /\ \E c \in Chain(1) :
        /\ anchor' = IF c.done = 1 THEN [anchor EXCEPT ![n] = "none"] ELSE anchor
        /\ trusted' = trusted
        /\ Answer("trust_remove", <<n, anchor[n]>>, c.ok)
    /\ UNCHANGED <<distro, pairVars>>

\* trust_remove: remove the file, then build.  On a host of an unknown distribution nothing is
\* built, and the answer is ok all the same.
TrustRemove(n) ==
    /\ anchor[n] # "none"
    /\ \E c \in Chain(IF distro = "unknown" THEN 1 ELSE 2) :
        /\ anchor' = IF c.done >= 1 THEN [anchor EXCEPT ![n] = "none"] ELSE anchor
        /\ trusted' = IF c.done = 2 THEN Taken(anchor') ELSE trusted
        /\ Answer("trust_remove", <<n, anchor[n]>>, c.ok)
    /\ UNCHANGED <<distro, pairVars>>

-----------------------------------------------------------------------------
(* Installed pairs. *)

\* Mutant: a key that is not written leaves the certificate and is not reported.
CertSaveHalf(n, m, k) ==
    /\ \E c \in Chain(3) :
        /\ \E file \in Pem(crt[n], m, TRUE, c.done >= 1) : crt' = [crt EXCEPT ![n] = file]
        /\ \E file \in Pem(keyOf[n], k, c.done >= 1, c.done >= 2) : keyOf' = [keyOf EXCEPT ![n] = file]
        /\ private' = IF c.done = 3 THEN private \cup {n} ELSE private
        /\ Answer("cert_save", <<n, m, k>>, c.done >= 1)
    /\ UNCHANGED trustVars

\* cert_save: certificate, key, chmod, whether or not the two belong together.  When the key cannot
\* be written the certificate is taken back; when chmod fails both stay as they are.
CertSave(n, m, k) ==
    /\ \E c \in Chain(3), undone \in BOOLEAN :
        /\ \E file \in Pem(crt[n], m, TRUE, c.done >= 1) :
            crt' = [crt EXCEPT ![n] = IF c.done = 1 /\ undone THEN "none" ELSE file]
        /\ \E file \in Pem(keyOf[n], k, c.done >= 1, c.done >= 2) : keyOf' = [keyOf EXCEPT ![n] = file]
        /\ private' = IF c.done = 3 THEN private \cup {n} ELSE private
        /\ Answer("cert_save", <<n, m, k>>, c.ok)
    /\ UNCHANGED trustVars

\* Mutant: the written text is not tried as a certificate first.
SavePemUnchecked(n, m, valid) ==
    /\ crt[n] # "none"
    /\ crt' = [crt EXCEPT ![n] = IF valid THEN m ELSE "cut"]
    /\ Answer("save_pem", <<n, m>>, TRUE)
    /\ UNCHANGED <<trustVars, keyOf, private>>

\* save_pem: a text that openssl does not take for a certificate is refused, then tee.
SavePem(n, m, valid) ==
    /\ crt[n] # "none"
    /\ IF ~valid
       THEN Refuse /\ UNCHANGED crt
       ELSE \E c \in Chain(1) : \E file \in Pem(crt[n], m, TRUE, c.done = 1) :
                /\ crt' = [crt EXCEPT ![n] = file]
                /\ Answer("save_pem", <<n, m>>, c.ok)
    /\ UNCHANGED <<trustVars, keyOf, private>>

TrustNext == \E n \in CertName : TrustRemove(n) \/ \E m \in Material : TrustAdd(n, m)

PairNext ==
    \E n \in CertName, m \in Material :
        \/ \E k \in Material : CertSave(n, m, k)
        \/ \E valid \in BOOLEAN : SavePem(n, m, valid)

-----------------------------------------------------------------------------
(* Properties. *)

\* A certificate reported added has its anchor and is trusted.  One reported removed has its
\* anchor no more and, on a distribution the agent knows, is trusted only if another anchor holds
\* it.  Both whatever earlier additions and removals failed half-way (trust_add, trust_remove).
TrustIsAsTold ==
    /\ Told("trust", "trust_add") =>
          anchor[reply.arg[1]] = reply.arg[2] /\ reply.arg[2] \in trusted
    /\ Told("trust", "trust_remove") =>
          /\ anchor[reply.arg[1]] = "none"
          /\ distro # "unknown" /\ reply.arg[2] \in trusted => reply.arg[2] \in Taken(anchor)

\* A pair reported saved is whole, certificate and key each as sent, and has its key to itself;
\* a file reported edited is as sent: tee, tee and chmod of cert_save, and save_pem.
SavedPairIsWhole ==
    /\ Told("certs", "cert_save") =>
        LET n == reply.arg[1] IN crt[n] = reply.arg[2] /\ keyOf[n] = reply.arg[3] /\ n \in private
    /\ Told("certs", "save_pem") => crt[reply.arg[1]] = reply.arg[2]
=============================================================================
