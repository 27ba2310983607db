---------------------------- MODULE BlasterStore ----------------------------
(***************************************************************************)
(* What the JSON Blaster keeps on disk for one search definition           *)
(* (blaster/cache.py), the HTTP handlers that write it, and the thread     *)
(* that prunes it (blaster/__init__.py).                                   *)
(*                                                                         *)
(* The handlers run on one event loop: nothing of the loop happens between *)
(* two steps of put_search(), while the pruning thread may take any of its *)
(* own.  A definition's directory is named by its hash, so that a second   *)
(* POST of it meets what the first has stored.                             *)
(***************************************************************************)
EXTENDS Naturals, FiniteSets

CONSTANT MaxRequests   \* bound: POSTs of the definition, starts and evaluations of it

VARIABLES
  there,     \* the definition's directory exists
  files,     \* what it holds: "search", "expires", "result"
  expired,   \* the first of the definition's cookies has expired
  post,      \* step of SearchHandler.post()
  requests,  \* number of these requests so far
  stored,    \* a POST was answered with the search key
  pruner,    \* step of SearchCache.prune()
  listed     \* the files that its rmtree() still has to remove

diskVars == <<there, files, expired, post, stored, pruner, listed>>
storeVars == <<diskVars, requests>>

PutSteps == {"mkdir", "check", "expires", "search"}
\* put_search() has the event loop.
Busy == post \in PutSteps

StoreInit ==
  /\ there = FALSE /\ files = {} /\ expired = FALSE
  /\ post = "none" /\ requests = 0 /\ stored = FALSE
  /\ pruner = "sleep" /\ listed = {}

-----------------------------------------------------------------------------
(***************************************************************************)
(* SearchHandler.post()                                                    *)
(***************************************************************************)

Request == requests < MaxRequests /\ requests' = requests + 1

\* _BlasterBlob.fetch(): a blob that an earlier POST put into the blob cache is
\* read at once, any other is fetched over HTTP; HTTPError where the cache has
\* lost it or the scheme is unknown.
Fetch(read, wait, refused) == {read, wait, refused}

PostSearch ==
  /\ ~Busy /\ post = "none"
  /\ Request
  /\ post' \in Fetch("mkdir", "fetch", "none")
  /\ UNCHANGED <<there, files, expired, stored, pruner, listed>>

\* The HTTP response: an error or a wrong hash is an HTTPError.
Fetched ==
  /\ post = "fetch"
  /\ post' \in {"mkdir", "none"}
  /\ UNCHANGED <<there, files, expired, requests, stored, pruner, listed>>

\* The POST ends without an answer for the client: os.rename() has raised.
PutFails ==
  /\ ~there
  /\ post' = "none"
  /\ UNCHANGED <<files, stored>>

\* Mutant: a directory that exists is taken for a definition that is stored.
PutMkdirStored ==
  /\ post = "mkdir"
  /\ there' = TRUE
  /\ IF there THEN post' = "none" /\ stored' = TRUE
              ELSE post' = "check" /\ UNCHANGED stored
  /\ UNCHANGED <<files, expired, requests, pruner, listed>>

PutMkdir ==
  /\ post = "mkdir"
  /\ there' = TRUE
  /\ post' = "check"
  /\ UNCHANGED <<files, expired, requests, stored, pruner, listed>>

\* A definition that is stored already stays as it is.
PutCheck ==
  /\ post = "check"
  /\ IF "search" \in files
     THEN post' = "none" /\ stored' = TRUE
     ELSE post' = "expires" /\ UNCHANGED stored
  /\ UNCHANGED <<there, files, expired, requests, pruner, listed>>

\* The expiration is renamed into place first: a search that can be loaded
\* can be pruned.
PutExpires ==
  /\ post = "expires"
  /\ \/ /\ there
        /\ files' = files \cup {"expires"}
        /\ post' = "search"
        /\ UNCHANGED stored
     \/ PutFails
  /\ UNCHANGED <<there, expired, requests, pruner, listed>>

PutRename ==
  /\ post = "search"
  /\ \/ /\ there
        /\ files' = files \cup {"search"}
        /\ post' = "none"
        /\ stored' = TRUE
     \/ PutFails
  /\ UNCHANGED <<there, expired, requests, pruner, listed>>

\* put_search_result() renames a finished file into the directory.
PutResult ==
  files' = IF there THEN files \cup {"result"} ELSE files

-----------------------------------------------------------------------------
(***************************************************************************)
(* The pruning thread, and time                                            *)
(***************************************************************************)

Expire ==
  /\ ~expired
  /\ expired' = TRUE
  /\ UNCHANGED <<there, files, post, requests, stored, pruner, listed>>

\* A directory without an expiration file is taken for something else.
PruneLook ==
  /\ pruner = "sleep"
  /\ "expires" \in files /\ expired
  /\ pruner' = "list"
  /\ UNCHANGED <<there, files, expired, post, requests, stored, listed>>

PruneList ==
  /\ pruner = "list"
  /\ pruner' = "remove"
  /\ listed' = files
  /\ UNCHANGED <<there, files, expired, post, requests, stored>>

\* rmtree() removes the files it has listed, in the order of the directory.
PruneRemove(f) ==
  /\ pruner = "remove" /\ f \in listed
  /\ files' = files \ {f}
  /\ listed' = listed \ {f}
  /\ UNCHANGED <<there, expired, post, requests, stored, pruner>>

\* rmdir() fails when a file has come since, and the thread logs it.
PruneRmdir ==
  /\ pruner = "remove" /\ listed = {}
  /\ pruner' = "sleep"
  /\ there' = (files # {})
  /\ UNCHANGED <<files, expired, post, requests, stored, listed>>

\* The process dies; the directory stays as it is.
StoreCrash ==
  /\ post' = "none" /\ pruner' = "sleep" /\ listed' = {}
  /\ UNCHANGED <<there, files, expired, requests, stored>>

StoreNext ==
  \/ PostSearch \/ Fetched
  \/ PutMkdir \/ PutCheck \/ PutExpires \/ PutRename
  \/ Expire \/ PruneLook \/ PruneList \/ PruneRmdir
  \/ \E f \in listed : PruneRemove(f)

-----------------------------------------------------------------------------
StoreTypeOK ==
  /\ there \in BOOLEAN /\ expired \in BOOLEAN /\ stored \in BOOLEAN
  /\ files \subseteq {"search", "expires", "result"} /\ listed \subseteq files
  /\ post \in {"none", "fetch"} \cup PutSteps /\ requests \in 0..MaxRequests
  /\ pruner \in {"sleep", "list", "remove"}

\* A search key that a POST has returned can be used until a cookie expires,
\* and a definition that can be loaded has its expiration beside it, also when
\* the process dies between the renames of put_search() or in a prune.
KeyGood ==
  ~expired => /\ stored => "search" \in files
              /\ "search" \in files => "expires" \in files
=============================================================================
