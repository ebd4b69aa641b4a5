------------------------------- MODULE CheckOut -------------------------------
(***************************************************************************)
(* What the character database promises about each character: it is        *)
(* checked out by at most one server at a time; only that server writes    *)
(* it; what is written never goes back behind what was written before; and *)
(* what the server has made of it is written when it is handed back.  The  *)
(* promise ends when the character is taken from an owner that is running. *)
(***************************************************************************)
EXTENDS Naturals

CONSTANTS Servers, Chars, None

VARIABLES owner,   (* owner[c]: the server that has c checked out, or None *)
          saved,   (* saved[c]: what the database holds                    *)
          working, (* working[c]: what the owner has made of it            *)
          seized   (* the characters taken away from a running owner       *)

cvars == <<owner, saved, working, seized>>

CInit == /\ owner = [c \in Chars |-> None]
         /\ saved = [c \in Chars |-> 0]
         /\ working = [c \in Chars |-> 0]
         /\ seized = {}

\* A server takes the character; it starts from what is saved.
TakeOut(c) == /\ owner[c] = None /\ owner'[c] \in Servers
              /\ working'[c] = saved[c] /\ saved'[c] = saved[c]

\* The character gains something in the owner's memory.
Work(c) == /\ owner[c] # None /\ owner'[c] = owner[c]
           /\ working'[c] > working[c] /\ saved'[c] = saved[c]

\* The owner writes what it had at some moment since the last write.
Save(c) == /\ owner[c] # None /\ owner'[c] = owner[c]
           /\ saved'[c] \in saved[c] .. working[c] /\ working'[c] = working[c]

\* The owner hands the character back, with all it has made of it.
HandBack(c) == /\ owner[c] # None /\ owner'[c] = None
               /\ saved'[c] = working[c] /\ working'[c] = working[c]

\* The owner's memory is lost: it still is the owner, of what is saved.
Lose(c) == /\ owner[c] # None /\ owner'[c] = owner[c]
           /\ working'[c] = saved[c] /\ saved'[c] = saved[c]

\* An owner with nothing to lose is deprived of the character.
Revoke(c) == /\ owner[c] # None /\ owner'[c] = None
             /\ working[c] = saved[c]
             /\ working'[c] = working[c] /\ saved'[c] = saved[c]

Rest(c) == <<owner'[c], saved'[c], working'[c]>> = <<owner[c], saved[c], working[c]>>

\* One server can do something to all its characters at once: it crashes or starts.
CNext == /\ seized \subseteq seized'
         /\ \A c \in Chars \ seized' :
               \/ TakeOut(c) \/ Work(c) \/ Save(c) \/ HandBack(c)
               \/ Lose(c) \/ Revoke(c) \/ Rest(c)

CSpec == CInit /\ [][CNext]_cvars
=============================================================================
