-------------------------------- MODULE MCDesk --------------------------------
(***************************************************************************)
(* The desk with two of everything that comes in several.                   *)
(***************************************************************************)
EXTENDS Desk

CONSTANTS
  a, b,    \* the hosts of known_hosts
  c1, c2,  \* SFTP clients
  s1, s2   \* SSH sessions

MCPhrases == {-1, -2}

\* A label for added hosts and one for copies.
MCBaseOf == [web |-> 1, copy |-> 2]
MCCopyOf == [web |-> "copy", copy |-> "copy"]

K(alg, n) == [alg |-> alg, n |-> n]
RecordedKey == K("ed25519", 1)
MCKeys == {RecordedKey, K("ed25519", 2), K("rsa", 1)}
MCAlg == [k \in MCKeys |-> k.alg]
Line(names, key) == [names |-> names, key |-> key]

\* A fresh file, one with a line of its own for each host, and one in which the
\* hosts share a line, with a comment between the lines.
MCFiles ==
  LET Comment == Line({}, CHOOSE k \in MCKeys : TRUE)
  IN {<<>>,
      <<Comment, Line({a}, RecordedKey), Line({b}, K("ed25519", 2))>>,
      <<Line({a, b}, RecordedKey), Comment, Line({a}, K("rsa", 1)),
        Line({b}, K("rsa", 1))>>}

\* A directory with a subdirectory that is empty, and a file.
MCCanonical == [dot |-> "top", top |-> "top", sub |-> "sub"]
MCParent == [top |-> "top", sub |-> "top"]
MCEntries == [top |-> <<"sub", "file">>, sub |-> <<>>]

\* The root, the home, and a directory in it.
MCParentOf == [root |-> "root", home |-> "root", docs |-> "home"]
MCEntriesOf == [root |-> <<"home">>, home |-> <<"docs", "file">>, docs |-> <<>>]

\* Two labels of one id and a third.
MCIdOf == [web |-> 1, Web |-> 1, db |-> 2]

\* Sizes that a hand-edited file may hold: negative, below the least, between
\* two steps, above the greatest, and no number.
MCRawSizes == {-1, 0, 2, 9, NaN}

\* Usernames matter to the rename alone, which is explored with one host, in the
\* first start and without failures; reads and writes that fail are explored
\* with one host too; two hosts, as copies and reused ids need, under one
\* username.  A failed write of the snippets is followed no further: what holds
\* of them is promised while writes succeed.  The keys pane opens one form at a
\* time, and of three operations all are on keys or all on known hosts.  The
\* two sessions are alike, and the two clients: the first that something happens
\* to is s1, or c1.  Rows of transfers are explored while nothing else goes on in
\* the SFTP pane but its attachments; hosts that offer Telnet, with the drawer's
\* "Show more" closed; a vault with exchanged records, with two random values.
Explored ==
  /\ failed = 0
  /\ Cardinality(forms) < 2
  /\ tasks > 2 => keychain = Keyring!NoKeys \/ lines \in Files
  /\ LET touched == ended \cup {pendingStarts[n] : n \in DOMAIN pendingStarts}
                           \cup {forwards[n].of : n \in DOMAIN forwards}
     IN s2 \in touched => s1 \in touched
  /\ c2 \notin unused => c1 \notin unused
  /\ telnet # {} => ~more
  /\ exchanged => fresh < 3
  /\ rows # <<>> =>
       jobs = {} /\ picked = 0 /\ Len(past.paths) < 2 /\ ~picker
  /\ rename # NoRename => starts = 1 /\ failures = 0
  /\ Cardinality({i \in Ids : hosts[i].there \/ disk.hosts[i].there}) > 1 =>
       /\ rename = NoRename /\ failures = 0
       /\ \A i \in Ids : {hosts[i].user, disk.hosts[i].user} = {NoHost.user}
=============================================================================
