---------------------------- MODULE CryptoDigest ----------------------------
(***************************************************************************)
(* PAL::CryptoDigest for the Java port (crypto/java/CryptoDigestJava.cpp): *)
(* one digest object from create() through addBytes() calls to            *)
(* computeHash(), on one thread, each call going through JNI to a Java     *)
(* WCMessageDigest.                                                        *)
(*                                                                         *)
(* A hash is abstracted to the algorithm and the sequence of chunks it was *)
(* computed over.  The Java side (not in this repository) is assumed to   *)
(* behave like java.security.MessageDigest: addBytes absorbs a chunk and   *)
(* computeHash returns the digest of what was absorbed and resets.         *)
(*                                                                         *)
(* The environment: WebCore_GetJavaEnv() is null or not for the thread     *)
(* (EnvAttached), and the Java methods named in Throwing may throw.  A     *)
(* thrown exception that the code does not clear stays pending; the next   *)
(* JNI call made with it pending is undefined behaviour (JNI spec), so its *)
(* outcome is a choice: the call runs as usual or it fails.                *)
(***************************************************************************)
EXTENDS Naturals, Sequences

CONSTANTS
    Algorithms,     \* CryptoDigest::Algorithm values
    Chunks,         \* byte buffers passed to addBytes
    MaxChunks,      \* bound on addBytes calls per hash
    EnvAttached,    \* the values WebCore_GetJavaEnv() != nullptr may have
    Throwing        \* subset of {"getInstance", "addBytes", "computeHash"}

VARIABLES
    phase,      \* "start" (before create), "created", or "crashed"
    env,        \* WebCore_GetJavaEnv() is non-null on this thread
    jDigest,    \* m_context->jDigest is non-null
    alg,        \* the algorithm create() was given
    fed,        \* the chunks the Java digest has absorbed since its last hash
    given,      \* the chunks the caller passed to addBytes since create/computeHash
    pending,    \* a Java exception is pending on the thread
    result      \* the last computeHash() result, and the chunks the caller
                \* had passed for it (of)

vars == <<phase, env, jDigest, alg, fed, given, pending, result>>

\* The results: none yet, an empty Vector<uint8_t>, or the hash of the
\* chunks s under algorithm a; of is what the caller had passed.
NoResult == [kind |-> "none", alg |-> "none", input |-> <<>>, of |-> <<>>]
EmptyResult(of) == [kind |-> "empty", alg |-> "none", input |-> <<>>, of |-> of]
HashResult(a, s, of) == [kind |-> "hash", alg |-> a, input |-> s, of |-> of]

\* Whether the Java method m throws in this call.
Throws(m) == IF m \in Throwing THEN BOOLEAN ELSE {FALSE}

\* The outcome of a JNI call: with an exception pending it is undefined,
\* and may run as usual or fail (return null).
CallRuns == IF pending THEN BOOLEAN ELSE {TRUE}

Init ==
    /\ phase = "start"
    /\ env \in EnvAttached
    /\ jDigest = FALSE
    /\ alg = CHOOSE a \in Algorithms : TRUE
    /\ fed = <<>>
    /\ given = <<>>
    /\ pending = FALSE
    /\ result = NoResult

\* CryptoDigest::create(algorithm): toJavaMessageDigestAlgorithm calls
\* env->NewStringUTF without checking env, then GetMessageDigestInstance
\* returns {} when env is null or getInstance threw (the exception is
\* cleared by CheckAndClearException).
Create(a) ==
    /\ phase = "start"
    /\ IF ~env
       THEN phase' = "crashed" /\ UNCHANGED <<jDigest, alg>>
       ELSE \E threw \in Throws("getInstance") :
                /\ phase' = "created"
                /\ jDigest' = ~threw
                /\ alg' = a
    /\ UNCHANGED <<env, fed, given, pending, result>>

\* CryptoDigest::addBytes(input, length): returns if jDigest or env is
\* null; otherwise CallVoidMethod, whose exception nothing checks.
AddBytes(c) ==
    /\ phase = "created"
    /\ Len(given) < MaxChunks
    /\ given' = Append(given, c)
    /\ IF ~jDigest \/ ~env
       THEN UNCHANGED <<fed, pending>>
       ELSE \E runs \in CallRuns, threw \in Throws("addBytes") :
                IF runs /\ ~threw
                THEN fed' = Append(fed, c) /\ pending' = FALSE
                ELSE UNCHANGED fed /\ pending' = TRUE
    /\ UNCHANGED <<phase, env, jDigest, alg, result>>

\* Mutation: computeHash without the jDigest/env check.
ComputeHashNoCheck ==
    /\ phase = "created"
    /\ \E runs \in CallRuns, threw \in Throws("computeHash") :
          IF ~jDigest \/ ~env \/ ~runs \/ threw
          THEN phase' = "crashed" /\ UNCHANGED <<fed, result>>
          ELSE /\ result' = HashResult(alg, fed, given)
               /\ fed' = <<>>
               /\ UNCHANGED phase
    /\ given' = <<>>
    /\ pending' = FALSE
    /\ UNCHANGED <<env, jDigest, alg>>

\* CryptoDigest::computeHash(): returns {} if jDigest or env is null;
\* otherwise calls computeHash() and GetPrimitiveArrayCritical on the
\* array it returned.  A throwing or failed call returns a null array,
\* which GetPrimitiveArrayCritical dereferences.  result records, beside
\* the hash, the chunks the caller had passed (of).  A call that runs
\* with an exception pending discards it (HotSpot clears a pending
\* exception when it enters a Java method).
ComputeHash ==
    /\ phase = "created"
    /\ IF ~jDigest \/ ~env
       THEN result' = EmptyResult(given) /\ UNCHANGED <<phase, fed>>
       ELSE \E runs \in CallRuns, threw \in Throws("computeHash") :
               IF ~runs \/ threw
               THEN phase' = "crashed" /\ UNCHANGED <<fed, result>>
               ELSE /\ result' = HashResult(alg, fed, given)
                    /\ fed' = <<>>
                    /\ UNCHANGED phase
    /\ given' = <<>>
    /\ pending' = FALSE
    /\ UNCHANGED <<env, jDigest, alg>>

Next ==
    \/ \E a \in Algorithms : Create(a)
    \/ \E c \in Chunks : AddBytes(c)
    \/ ComputeHash

Spec == Init /\ [][Next]_vars

-----------------------------------------------------------------------------
(* Properties.                                                             *)

\* A digest either fails visibly or is right: the process does not crash,
\* and every non-empty vector computeHash() returns is the hash of exactly
\* the chunks passed to addBytes() since create() or the previous
\* computeHash(), whatever failed in between.
DigestSound ==
    /\ phase # "crashed"
    /\ result.kind = "hash" => result.input = result.of

=============================================================================
