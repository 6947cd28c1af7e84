------------------------------ MODULE BlindRsa ------------------------------
(***************************************************************************)
(* The arithmetic of blind_signature.py, over a modulus small enough for   *)
(* TLC: a message is blinded with a factor, signed without being seen, and *)
(* the factor is taken off the signature.                                  *)
(***************************************************************************)
EXTENDS Integers

CONSTANTS
    N, \* the modulus of the blind signer's key
    E, \* its public exponent
    D  \* its private exponent

ASSUME KeyAssumption == N \in Nat \ 0..3 /\ E \in Nat \ {0} /\ D \in Nat \ {0}

Pow(b, k) ==
    LET power[i \in 0..k] == IF i = 0 THEN 1 ELSE (power[i - 1] * b) % N
    IN  power[k]

\* rsa.generate_private_key: the private exponent undoes the public one.
ASSUME KeyPairAssumption == \A x \in 0..(N - 1) : Pow(Pow(x, E), D) = x

\* The values below n that have an inverse, as math.gcd(value, n) = 1 says.
Units == {x \in 1..(N - 1) : \E y \in 1..(N - 1) : (x * y) % N = 1}

InverseOf(x) == CHOOSE y \in 1..(N - 1) : (x * y) % N = 1

\* secrets.randbelow(n - 3) + 2, drawn again until it has an inverse.
BlindingFactors == Units \cap 2..(N - 2)

BlindMessage(message, factor) == (message * Pow(factor, E)) % N

\* sign_blinded_message raises for any other value.
Signable(blinded) == blinded \in 1..(N - 1)

SignBlinded(blinded) == Pow(blinded, D)

\* Mutant: the factor is multiplied instead of divided.
UnblindByFactor(signature, factor) == (signature * factor) % N

Unblind(signature, factor) == (signature * InverseOf(factor)) % N

VerifyFinal(message, signature) == Pow(signature, E) = message
=============================================================================
