--------------------------- MODULE RegistryClient ---------------------------
(***************************************************************************)
(* The client of an image registry: a push (PushToRegistry with the        *)
(* layers of DiskV2.Push, some at a time), a push of manifests only, a     *)
(* login and a list of tags, over requests that are authenticated when the *)
(* registry asks for it.  The keeper of the token is shared by the layers'  *)
(* goroutines.  One exchange with the registry is one step; the registry   *)
(* is external.  Contents are numbers, and a digest is its content.        *)
(***************************************************************************)
EXTENDS Integers, Sequences, FiniteSets, SequencesExt

CONSTANTS
    NLayers,        \* layers of the pushed disk
    Concurrency,    \* layers pushed at a time
    Parts,          \* parts of a layer in a chunked upload
    References,     \* names the manifest is pushed to
    Providers,      \* what the providers of credentials have, in their order
    RegMixes,       \* what may happen in a history
    MaxRegEvents    \* bound on what happens to the registry, tokens and network

VARIABLES
    reg,        \* the registry: blobs, uploads, manifests, scheme, tags, tokens' age
    push,       \* the command and how far it is
    req,        \* what each goroutine asks the registry
    auth,       \* authenticationKeeper
    chain,      \* what each provider answers: "none", "err", "good" or "bad"
    answer,     \* the tags listed, and those there all or some of the time
    regmix, regevents

vars == <<reg, push, req, auth, chain, answer, regmix, regevents>>

Main == 0
Layers == 1..NLayers
Blobs == {Main} \cup Layers
AllTags == 1..4
PageSize == 2
Absent == <<>>

(* The last layer of the disk repeats the first. *)
Disk == [i \in Layers |-> IF i = NLayers THEN 1 ELSE i]
Others == [config |-> NLayers + 1, nvram |-> NLayers + 2, oci |-> NLayers + 3]
Contents == 1..(NLayers + 3)
ManifestOf(layers) == <<Others.config>> \o layers \o <<Others.nvram, Others.oci>>
Whole == ManifestOf(Disk)

Idle == [at |-> "off", op |-> "", part |-> 0, loc |-> 0, again |-> FALSE]
Ask(op) == [Idle EXCEPT !.at = "send", !.op = op]
NoToken == [kind |-> "none", good |-> FALSE, age |-> 0, valid |-> FALSE]

TypeOK ==
    /\ reg.blobs \subseteq Contents /\ reg.uploads \in [Blobs -> 0..Parts]
    /\ push.at \in {"config", "layers", "nvram", "oci", "manifests", "fetch", "ping", "list", "done", "failed"}
    /\ push.ref \in 0..Len(References) /\ push.spawned \in 0..NLayers
    /\ Len(push.layers) <= NLayers
    /\ Cardinality({i \in Layers : req[i].at # "off"}) <= Concurrency
    /\ \A i \in Blobs : req[i].at \in {"off", "send", "auth"} /\ req[i].part \in 0..Parts
    /\ auth.kind \in {"none", "basic", "bearer"}
    /\ regevents \in 0..MaxRegEvents

-----------------------------------------------------------------------------
(* Authentication *)

(* The first provider that has credentials; one that fails is passed over. *)
Found(c) == c \in {"good", "bad"}
Lookup ==
    IF \E i \in DOMAIN chain : Found(chain[i])
    THEN chain[CHOOSE i \in DOMAIN chain : Found(chain[i]) /\ \A j \in 1..(i - 1) : ~Found(chain[j])]
    ELSE "none"

(* The keeper's header: none when the token has run out. *)
Header == IF auth.valid THEN auth ELSE NoToken

(* What the registry makes of a header: no token from before a revocation. *)
Accepts(h) ==
    \/ reg.scheme = "open"
    \/ h.kind = reg.scheme /\ h.good /\ h.age = reg.age

(* A first 401 is answered with auth and a second try, a second one is final. *)
Refuses(i) == ~Accepts(Header)

Failed(i) ==
    /\ req' = [req EXCEPT ![i] = Idle]
    /\ push' = IF i = Main THEN [push EXCEPT !.at = "failed"] ELSE [push EXCEPT !.err = TRUE]

(* auth with a Basic scheme keeps the credentials; with Bearer it gets a token. *)
Authenticate(i) ==
    /\ req[i].at = "auth"
    /\ \/ /\ reg.scheme = "basic"
          /\ auth' = IF Lookup = "none" THEN auth
                     ELSE [kind |-> "basic", good |-> Lookup = "good", age |-> reg.age, valid |-> TRUE]
       \/ /\ reg.scheme = "bearer" /\ Lookup # "bad"
          /\ auth' = [kind |-> "bearer", good |-> Lookup = "good", age |-> reg.age, valid |-> TRUE]
    /\ req' = [req EXCEPT ![i].at = "send", ![i].again = TRUE]
    /\ UNCHANGED <<reg, push, chain, answer, regmix, regevents>>

(* No challenge it understands, or no token for these credentials. *)
AuthFails(i) ==
    /\ req[i].at = "auth"
    /\ reg.scheme = "odd" \/ (reg.scheme = "bearer" /\ Lookup = "bad")
    /\ Failed(i)
    /\ UNCHANGED <<reg, auth, chain, answer, regmix, regevents>>

(* A request without the right header. *)
Unauthorized(i) ==
    /\ req[i].at = "send" /\ Refuses(i)
    /\ IF req[i].again THEN Failed(i)
       ELSE req' = [req EXCEPT ![i].at = "auth"] /\ UNCHANGED push
    /\ UNCHANGED <<reg, auth, chain, answer, regmix, regevents>>

(* No answer comes, though the registry may have done what was asked; a     *)
(* layer is not tried again: net/http's errors are not those it looks for.  *)
NetworkFails(i, done) ==
    /\ "net" \in regmix /\ regevents < MaxRegEvents
    /\ req[i].at = "send" /\ ~Refuses(i)
    /\ reg' = IF done THEN [reg EXCEPT !.blobs = @ \cup {IF i = Main THEN Others.config ELSE Disk[i]}] ELSE reg
    /\ done => req[i].op = "PUT" /\ (i = Main => push.at = "config")
    /\ regevents' = regevents + 1
    /\ Failed(i)
    /\ UNCHANGED <<auth, chain, answer, regmix>>

-----------------------------------------------------------------------------
(* Uploading a blob *)

Content(i) == IF i = Main THEN Others[push.at] ELSE Disk[i]
PartsOf(i) == IF i = Main \/ push.whole THEN 1 ELSE Parts

(* pushDiskLayer asks whether the registry has the layer. *)
BlobExists(i) ==
    /\ req[i].at = "send" /\ req[i].op = "HEAD" /\ ~Refuses(i)
    /\ IF Content(i) \in reg.blobs
       THEN /\ req' = [req EXCEPT ![i] = Idle]
            /\ push' = [push EXCEPT !.layers = Append(@, <<i, Disk[i]>>)]
       ELSE req' = [req EXCEPT ![i] = Ask("POST")] /\ UNCHANGED push
    /\ UNCHANGED <<reg, auth, chain, answer, regmix, regevents>>

(* The upload is begun, and its location is where the first part goes. *)
PostUpload(i) ==
    /\ req[i].at = "send" /\ req[i].op = "POST" /\ ~Refuses(i)
    /\ reg' = [reg EXCEPT !.uploads[i] = 0]
    /\ req' = [req EXCEPT ![i] = Ask(IF PartsOf(i) = 1 THEN "PUT" ELSE "PATCH")]
    /\ UNCHANGED <<push, auth, chain, answer, regmix, regevents>>

(* A part goes to the location the answer before it gave. *)
PatchPart(i) ==
    /\ req[i].at = "send" /\ req[i].op = "PATCH" /\ ~Refuses(i)
    /\ IF req[i].loc = reg.uploads[i]
       THEN /\ reg' = [reg EXCEPT !.uploads[i] = @ + 1]
            /\ req' = [req EXCEPT ![i] = [Ask(IF req[i].part + 2 = PartsOf(i) THEN "PUT" ELSE "PATCH")
                                            EXCEPT !.part = req[i].part + 1, !.loc = reg.uploads[i] + 1]]
            /\ UNCHANGED push
       ELSE Failed(i) /\ UNCHANGED reg
    /\ UNCHANGED <<auth, chain, answer, regmix, regevents>>

(* What PushToRegistry does after a blob of its own. *)
AfterBlob ==
    CASE push.at = "config" -> [push EXCEPT !.at = "layers"]
      [] push.at = "nvram" -> [push EXCEPT !.at = "oci"]
      [] push.at = "oci" -> [push EXCEPT !.at = "manifests", !.manifest = ManifestOf(push.disk)]

(* The last part comes with the digest, which the registry compares. *)
PutBlob(i) ==
    /\ req[i].at = "send" /\ req[i].op = "PUT" /\ ~Refuses(i)
    /\ IF req[i].loc = reg.uploads[i] /\ reg.uploads[i] + 1 = PartsOf(i)
       THEN /\ reg' = [reg EXCEPT !.blobs = @ \cup {Content(i)}]
            /\ push' = IF i = Main THEN AfterBlob ELSE [push EXCEPT !.layers = Append(@, <<i, Disk[i]>>)]
            /\ req' = [req EXCEPT ![i] = IF i = Main /\ push.at = "nvram" THEN Ask("POST")
                                         ELSE IF i = Main /\ push.at = "oci" THEN Ask("MANIFEST") ELSE Idle]
       ELSE Failed(i) /\ UNCHANGED reg
    /\ UNCHANGED <<auth, chain, answer, regmix, regevents>>

-----------------------------------------------------------------------------
(* The layers: a goroutine each, as many as the semaphore lets in *)

Running == {i \in Layers : req[i].at # "off"}

pushDiskLayer(i) ==
    /\ push.at = "layers" /\ i = push.spawned + 1 /\ Cardinality(Running) < Concurrency
    /\ push' = [push EXCEPT !.spawned = i]
    /\ req' = [req EXCEPT ![i] = Ask("HEAD")]
    /\ UNCHANGED <<reg, auth, chain, answer, regmix, regevents>>

(* When all have ended: the first error, or the layers by their index. *)
ByIndex(layers) == [k \in 1..Len(layers) |-> SortSeq(layers, LAMBDA a, b : a[1] < b[1])[k][2]]

(* Faulty: layers are listed as they came to an end. *)
PushedLayersUnsorted ==
    /\ push.at = "layers" /\ push.spawned = NLayers /\ Running = {}
    /\ push' = IF push.err THEN [push EXCEPT !.at = "failed"]
               ELSE [push EXCEPT !.at = "nvram", !.disk = [k \in 1..Len(push.layers) |-> push.layers[k][2]]]
    /\ req' = IF push.err THEN req ELSE [req EXCEPT ![Main] = Ask("POST")]
    /\ UNCHANGED <<reg, auth, chain, answer, regmix, regevents>>

PushedLayers ==
    /\ push.at = "layers" /\ push.spawned = NLayers /\ Running = {}
    /\ push' = IF push.err THEN [push EXCEPT !.at = "failed"]
               ELSE [push EXCEPT !.at = "nvram", !.disk = ByIndex(push.layers)]
    /\ req' = IF push.err THEN req ELSE [req EXCEPT ![Main] = Ask("POST")]
    /\ UNCHANGED <<reg, auth, chain, answer, regmix, regevents>>

-----------------------------------------------------------------------------
(* Manifests, the login, the tags *)

PushManifest ==
    /\ req[Main].at = "send" /\ req[Main].op = "MANIFEST" /\ ~Refuses(Main)
    /\ reg' = [reg EXCEPT !.manifests[References[push.ref + 1]] = push.manifest]
    /\ push' = [push EXCEPT !.ref = @ + 1, !.at = IF push.ref + 1 = Len(References) THEN "done" ELSE @]
    /\ req' = [req EXCEPT ![Main] = IF push.ref + 1 = Len(References) THEN Idle ELSE Ask("MANIFEST")]
    /\ UNCHANGED <<auth, chain, answer, regmix, regevents>>

(* lightweightPushToRegistry: what the registry has under the digest is     *)
(* pushed to the names; the blobs are there already.                        *)
PullManifest ==
    /\ req[Main].at = "send" /\ req[Main].op = "GET" /\ ~Refuses(Main)
    /\ IF reg.stored = Absent THEN Failed(Main)
       ELSE /\ push' = [push EXCEPT !.at = "manifests", !.manifest = reg.stored]
            /\ req' = [req EXCEPT ![Main] = Ask("MANIFEST")]
    /\ UNCHANGED <<reg, auth, chain, answer, regmix, regevents>>

(* weave login: what answers a ping is stored in the keychain, the last      *)
(* provider, and a push follows with the whole chain.                       *)
Login ==
    /\ req[Main].at = "send" /\ req[Main].op = "PING" /\ ~Refuses(Main)
    /\ chain' = Append(push.chain, chain[1])
    /\ auth' = NoToken
    /\ push' = [push EXCEPT !.at = "config"]
    /\ req' = [req EXCEPT ![Main] = Ask("POST")]
    /\ UNCHANGED <<reg, answer, regmix, regevents>>

(* The tags come in pages: the next is asked for by the last tag of one. *)
Page(last) == LET after == SetToSortSeq({t \in reg.tags : t > last}, <)
              IN SubSeq(after, 1, IF Len(after) < PageSize THEN Len(after) ELSE PageSize)

TagsList ==
    /\ req[Main].at = "send" /\ req[Main].op = "LIST" /\ ~Refuses(Main)
    /\ LET page == Page(req[Main].loc)
           more == page # <<>> /\ \E t \in reg.tags : t > Last(page)
       IN /\ answer' = [answer EXCEPT !.tags = @ \o page]
          /\ push' = IF more THEN push ELSE [push EXCEPT !.at = "done"]
          /\ req' = [req EXCEPT ![Main] = IF more THEN [Ask("LIST") EXCEPT !.loc = Last(page)] ELSE Idle]
    /\ UNCHANGED <<reg, auth, chain, regmix, regevents>>

-----------------------------------------------------------------------------
(* What happens meanwhile *)

(* A token runs out, which the keeper sees, or is revoked, which it does not. *)
Lapses(seen) ==
    /\ "expire" \in regmix /\ regevents < MaxRegEvents /\ auth.kind = "bearer"
    /\ reg' = [reg EXCEPT !.age = @ + 1, !.lapsed = @ \/ \E i \in Blobs : req[i].again]
    /\ auth' = [auth EXCEPT !.valid = @ /\ ~seen]
    /\ regevents' = regevents + 1
    /\ UNCHANGED <<push, req, chain, answer, regmix>>

(* Another client tags an image, or removes a tag. *)
Retag(t) ==
    /\ "list" \in regmix /\ push.at = "list" /\ regevents < MaxRegEvents
    /\ reg' = [reg EXCEPT !.tags = IF t \in @ THEN @ \ {t} ELSE @ \cup {t}]
    /\ answer' = [answer EXCEPT !.always = @ \ {t}, !.ever = @ \cup {t}]
    /\ regevents' = regevents + 1
    /\ UNCHANGED <<push, req, auth, chain, regmix>>

-----------------------------------------------------------------------------
Begins == {c \in {<<"config", "POST">>, <<"fetch", "GET">>, <<"ping", "PING">>, <<"list", "LIST">>} :
              /\ c[1] = "list" <=> "list" \in regmix
              /\ c[1] = "ping" => "login" \in regmix}

Init ==
    /\ regmix \in RegMixes
    /\ regevents = 0
    /\ auth = NoToken
    /\ \E scheme \in {"open", "basic", "bearer", "odd"}, stored \in {Absent, Whole} :
         reg = [blobs |-> IF stored = Absent THEN {} ELSE Contents, uploads |-> [i \in Blobs |-> 0],
                manifests |-> [r \in ToSet(References) |-> Absent], stored |-> stored,
                scheme |-> scheme, tags |-> {1, 2, 3}, age |-> 0, lapsed |-> FALSE]
    /\ \E c \in Begins, provided \in Providers, typed \in {"good", "bad"}, whole \in BOOLEAN :
         /\ push = [at |-> c[1], chain |-> provided, spawned |-> 0, layers |-> <<>>, disk |-> <<>>, err |-> FALSE,
                    ref |-> 0, manifest |-> Absent, whole |-> whole]
         /\ chain = IF c[1] = "ping" THEN <<typed>> ELSE provided
         /\ req = [i \in Blobs |-> IF i = Main THEN Ask(c[2]) ELSE Idle]
    /\ answer = [tags |-> <<>>, always |-> {1, 2, 3}, ever |-> {1, 2, 3}]

Requests(i) ==
    \/ Unauthorized(i) \/ Authenticate(i) \/ AuthFails(i)
    \/ PostUpload(i) \/ PutBlob(i)

(* The command's own goroutine, and a layer's. *)
Command ==
    \/ Requests(Main) \/ PushedLayers \/ PushManifest \/ PullManifest \/ Login \/ TagsList
    \/ \E i \in Layers : pushDiskLayer(i)

LayerSteps(i) == Requests(i) \/ BlobExists(i) \/ PatchPart(i)

Next ==
    \/ Command
    \/ \E i \in Layers : LayerSteps(i)
    \/ \E i \in Blobs, done \in BOOLEAN : NetworkFails(i, done)
    \/ \E seen \in BOOLEAN : Lapses(seen)
    \/ \E t \in AllTags : Retag(t)

Spec == Init /\ [][Next]_vars /\ WF_vars(Command) /\ \A i \in Layers : WF_vars(LayerSteps(i))

-----------------------------------------------------------------------------
(* A manifest in the registry lists the disk's layers in their order, however *)
(* the uploads ended, and every blob it lists was uploaded before             *)
(* (PushToRegistry, DiskV2.Push).                                             *)
ManifestsWhole ==
    \A r \in DOMAIN reg.manifests :
        reg.manifests[r] # Absent => reg.manifests[r] = Whole /\ ToSet(Whole) \subseteq reg.blobs

(* A command fails only if the network did, the registry's scheme is unknown, *)
(* the first credentials of the chain are not good ones, the image is not     *)
(* there, or a token lapsed between its issue and the request it was for: a    *)
(* token that lapses at any other time is replaced (channelRequest).          *)
FailsForCause ==
    push.at = "failed" =>
        \/ "net" \in regmix /\ regevents > 0
        \/ reg.scheme = "odd"
        \/ reg.lapsed
        \/ reg.scheme # "open" /\ Lookup # "good"
        \/ reg.stored = Absent /\ push.manifest = Absent /\ push.spawned = 0

(* A list of tags has every tag that was there all the time, none that never  *)
(* was, and none twice, whatever is tagged between two pages (TagsList).      *)
TagsListed ==
    push.at = "done" /\ answer.tags # <<>> =>
        /\ answer.always \subseteq ToSet(answer.tags) /\ ToSet(answer.tags) \subseteq answer.ever
        /\ Cardinality(ToSet(answer.tags)) = Len(answer.tags)

(* Every command ends, also when a layer failed while others are on their way. *)
PushEnds == <>(push.at \in {"done", "failed"})

(* Manifests are whole, failures have causes, lists of tags are complete. *)
RegSafe == TypeOK /\ ManifestsWhole /\ FailsForCause /\ TagsListed
=============================================================================
