-------------------------------- MODULE Page --------------------------------
(***************************************************************************)
(* What a client may receive of a page that is put together from a main    *)
(* request and its subrequests: the parts of every request in the order it *)
(* produced them, each subrequest at the place where it was started, and   *)
(* nothing left out of a page that ends without an error.                  *)
(***************************************************************************)
EXTENDS Integers, Sequences, SequencesExt

CONSTANT Reqs  \* the requests, numbered in the order of their creation

VARIABLES
  content,  \* what each request has produced: <<r, i>> is the i-th part of
            \* request r, <<r, 0>> stands for the page of a subrequest r
  sent,     \* the parts the client got, or will get when its socket is ready
  over,     \* the request is gone
  broken    \* it was cut off by an error

(* The page of request r: subrequests are created after their parents.     *)
Flat(c) ==
  LET page[r \in Reqs] ==
        FlattenSeq([i \in DOMAIN c[r] |->
                      IF c[r][i][2] = 0 THEN page[c[r][i][1]] ELSE <<c[r][i]>>])
  IN page[0]

PageInit ==
  /\ content = [r \in Reqs |-> <<>>] /\ sent = <<>>
  /\ over = FALSE /\ broken = FALSE

(* Requests produce parts, the client gets more of the page, until the end. *)
PageStep ==
  /\ ~over
  /\ \A r \in Reqs : IsPrefix(content[r], content'[r])
  /\ IsPrefix(sent, sent') /\ IsPrefix(sent', Flat(content'))
  /\ broken => broken'
  /\ over' /\ ~broken' => sent' = Flat(content')

PageSpec == PageInit /\ [][PageStep]_<<content, sent, over, broken>>

=============================================================================
