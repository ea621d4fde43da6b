---------------------------- MODULE Correo_proofs ----------------------------
(***************************************************************************)
(* Theorems about Correo for any workers, jobs, requests, attempts and     *)
(* number of deaths of the process.                                        *)
(***************************************************************************)
EXTENDS Correo, SequenceTheorems, FiniteSetTheorems, TLAPS

(***************************************************************************)
(* The inductive invariant: only an active job has a step to do, its       *)
(* attempts are within bounds when it is taken and given back, and the     *)
(* acceptances the process does not know of are as many as its doubts,     *)
(* plus the one that it is about to write down or has written down.        *)
(***************************************************************************)
PasoDeActivo ==
  \A j \in Trabajos :
    /\ paso[j] # "nada" => EstaEn(j, "activo")
    /\ paso[j] = "skipped" => ~Habilitado

Intentos ==
  \A j \in Trabajos :
    /\ EstaEn(j, "espera") => cola[j].intentos < MaxIntentos
    /\ EstaEn(j, "activo") => cola[j].intentos > 0

Conocida(j) == paso[j] = "sent" \/ EstaEn(j, "completo")

Entregas ==
  \A j \in Trabajos :
    /\ aceptados[j] <= (IF Conocida(j) THEN 1 ELSE 0) + dudas[j]
    /\ paso[j] = "sent" => aceptados[j] > 0

IInv == TiposEnvio /\ PasoDeActivo /\ Intentos /\ Entregas /\ EnviadoDeVerdad
-----------------------------------------------------------------------------
LEMMA Inicio == Init => IInv
BY TrabajoNoHay, EmptySeq
DEF Init, IInv, TiposEnvio, PasoDeActivo, Intentos, Entregas, EnviadoDeVerdad,
    Conocida, EstaEn

LEMMA EncolarMantiene ==
  ASSUME IInv, NEW w \in Trabajadores, NEW p \in Peticiones \union {NoHay}, Encolar(w, p),
         UNCHANGED <<paso, registro, smtp>>
  PROVE  IInv'
<1>1. PICK j \in Trabajos :
        /\ cola[j] = NoHay
        /\ cola' = [cola EXCEPT ![j] = [para |-> w, de |-> p, intentos |-> 0,
                                        devuelto |-> FALSE, estado |-> "espera"]]
  BY DEF Encolar
<1>2. [para |-> w, de |-> p, intentos |-> 0, devuelto |-> FALSE, estado |-> "espera"] \in Trabajo
  BY ConstantesCorreo DEF Trabajo
<1>3. TiposEnvio'
  BY <1>1, <1>2 DEF IInv, TiposEnvio, smtp
<1>4. \A k \in Trabajos : \A e \in {"activo", "completo"} : EstaEn(k, e)' <=> EstaEn(k, e)
  BY <1>1, <1>2, TrabajoNoHay DEF IInv, TiposEnvio, EstaEn
<1>5. PasoDeActivo' /\ Entregas' /\ EnviadoDeVerdad'
  BY <1>4 DEF IInv, PasoDeActivo, Entregas, EnviadoDeVerdad, Conocida, smtp
<1>6. Intentos'
  BY <1>1, <1>2, TrabajoNoHay, ConstantesCorreo DEF IInv, TiposEnvio, Intentos, EstaEn
<1>7. QED
  BY <1>3, <1>5, <1>6 DEF IInv

(* What a step that only touches job j has to establish.                   *)
LEMMA SoloUno ==
  ASSUME IInv, NEW j \in Trabajos, TiposEnvio',
         \A k \in Trabajos \ {j} : cola'[k] = cola[k] /\ paso'[k] = paso[k]
                                   /\ aceptados'[k] = aceptados[k] /\ dudas'[k] = dudas[k],
         PasoDeActivo!(j)', Intentos!(j)', Entregas!(j)',
         aceptados'[j] >= aceptados[j],
         EstaEn(j, "completo")' /\ Habilitado => aceptados'[j] > 0,
         \/ registro' = registro
         \/ \E r \in [trabajo : Trabajos, para : Trabajadores, status : Status] :
              /\ registro' = Append(registro, r)
              /\ r.status = "sent" => aceptados'[r.trabajo] > 0
  PROVE  IInv'
<1>1. PasoDeActivo' /\ Intentos' /\ Entregas'
  BY DEF IInv, PasoDeActivo, Intentos, Entregas, EstaEn, Conocida
<1>2. ASSUME NEW k \in Trabajos, aceptados[k] > 0
      PROVE  aceptados'[k] > 0
  <2>1. aceptados[k] \in Nat /\ aceptados'[k] \in Nat
    BY DEF IInv, TiposEnvio
  <2>2. CASE k = j
    BY <1>2, <2>1, <2>2
  <2>3. CASE k # j
    BY <1>2, <2>1, <2>3
  <2>4. QED
    BY <2>2, <2>3
<1>3. \A i \in 1 .. Len(registro') :
        registro'[i].status = "sent" => aceptados'[registro'[i].trabajo] > 0
  <2>0. registro \in Seq([trabajo : Trabajos, para : Trabajadores, status : Status])
    BY DEF IInv, TiposEnvio
  <2>1. ASSUME NEW i \in 1 .. Len(registro), registro[i].status = "sent"
        PROVE  aceptados'[registro[i].trabajo] > 0
    <3>1. registro[i] \in [trabajo : Trabajos, para : Trabajadores, status : Status]
      BY <2>0, ElementOfSeq
    <3>2. registro[i].trabajo \in Trabajos
      BY <3>1
    <3>3. aceptados[registro[i].trabajo] > 0
      BY <2>1 DEF IInv, EnviadoDeVerdad
    <3>4. QED
      BY <1>2, <3>2, <3>3
  <2>2. CASE registro' = registro
    BY <2>1, <2>2
  <2>3. ASSUME NEW r \in [trabajo : Trabajos, para : Trabajadores, status : Status],
               registro' = Append(registro, r),
               r.status = "sent" => aceptados'[r.trabajo] > 0
        PROVE  \A i \in 1 .. Len(registro') :
                 registro'[i].status = "sent" => aceptados'[registro'[i].trabajo] > 0
    <3>1. /\ Len(registro') = Len(registro) + 1
          /\ Len(registro) \in Nat
          /\ registro'[Len(registro) + 1] = r
          /\ \A i \in 1 .. Len(registro) : registro'[i] = registro[i]
      BY <2>0, <2>3, AppendProperties, LenProperties
    <3>2. TAKE i \in 1 .. Len(registro')
    <3>3. CASE i = Len(registro) + 1
      BY <2>3, <3>1, <3>3
    <3>4. CASE i # Len(registro) + 1
      <4>1. i \in 1 .. Len(registro)
        BY <3>1, <3>4
      <4>2. QED
        BY <2>1, <3>1, <4>1
    <3>5. QED
      BY <3>3, <3>4
  <2>4. QED
    BY <2>2, <2>3
<1>4. ASSUME Habilitado, NEW k \in Trabajos, EstaEn(k, "completo")'
      PROVE  aceptados'[k] > 0
  <2>1. CASE k = j
    BY <1>4, <2>1
  <2>2. CASE k # j
    <3>1. EstaEn(k, "completo")
      BY <1>4, <2>2 DEF EstaEn
    <3>2. QED
      BY <1>2, <1>4, <3>1 DEF IInv, EnviadoDeVerdad
  <2>3. QED
    BY <2>1, <2>2
<1>5. QED
  BY <1>1, <1>3, <1>4 DEF IInv, EnviadoDeVerdad

LEMMA ProcesarMantiene ==
  ASSUME IInv, NEW j \in Trabajos, Procesar(j)
  PROVE  IInv'
<1>1. /\ cola[j] \in Trabajo
      /\ cola[j].estado = "espera"
      /\ cola[j].intentos < MaxIntentos
  BY DEF Procesar, EstaEn, IInv, TiposEnvio, Intentos
<1>2. /\ cola'[j] = [cola[j] EXCEPT !.estado = "activo", !.intentos = @ + 1]
      /\ paso'[j] = IF Habilitado THEN "enviar" ELSE "skipped"
      /\ \A k \in Trabajos \ {j} : cola'[k] = cola[k] /\ paso'[k] = paso[k]
  BY DEF Procesar, IInv, TiposEnvio
<1>3. UNCHANGED <<registro, aceptados, dudas>>
  BY DEF Procesar, smtp
<1>4. cola'[j] \in Trabajo /\ cola'[j] # NoHay /\ cola'[j].estado = "activo"
      /\ cola'[j].intentos > 0
  <2>1. cola[j].intentos \in 0 .. MaxIntentos /\ cola[j].intentos + 1 \in 0 .. MaxIntentos
    BY <1>1, ConstantesCorreo DEF Trabajo
  <2>2. cola'[j].intentos = cola[j].intentos + 1 /\ cola'[j].estado = "activo"
    BY <1>1, <1>2 DEF Trabajo
  <2>3. cola'[j] \in Trabajo
    BY <1>1, <1>2, <2>1 DEF Trabajo
  <2>4. QED
    BY <2>1, <2>2, <2>3, TrabajoNoHay
<1>5. TiposEnvio'
  <2>1. cola' \in [Trabajos -> Trabajo \union {NoHay}]
    BY <1>2, <1>4 DEF Procesar, IInv, TiposEnvio
  <2>2. paso' \in [Trabajos -> {"nada", "enviar"} \union Status]
    BY DEF Procesar, IInv, TiposEnvio, Status
  <2>3. QED
    BY <1>3, <2>1, <2>2 DEF IInv, TiposEnvio
<1>6. ~Conocida(j)
  BY <1>1 DEF IInv, PasoDeActivo, Conocida, EstaEn
<1>7. aceptados[j] \in Nat /\ dudas[j] \in Nat /\ aceptados[j] <= dudas[j]
  BY <1>6 DEF IInv, Entregas, TiposEnvio
<1>8. PasoDeActivo!(j)' /\ Intentos!(j)' /\ ~EstaEn(j, "completo")'
  BY <1>2, <1>4 DEF EstaEn
<1>9. Entregas!(j)' /\ aceptados'[j] >= aceptados[j]
  <2>1. ~Conocida(j)' /\ paso'[j] # "sent"
    BY <1>2, <1>4 DEF Conocida, EstaEn
  <2>2. QED
    BY <1>3, <1>7, <2>1
<1>10. QED
  BY <1>2, <1>3, <1>5, <1>8, <1>9, SoloUno

LEMMA EnviarMantiene ==
  ASSUME IInv, NEW j \in Trabajos, Enviar(j)
  PROVE  IInv'
<1>0. TiposEnvio
  BY DEF IInv
<1>1. /\ cola' = cola
      /\ registro' = registro
      /\ paso[j] = "enviar"
      /\ paso'[j] \in {"sent", "failed"}
      /\ \A k \in Trabajos \ {j} : paso'[k] = paso[k]
           /\ aceptados'[k] = aceptados[k] /\ dudas'[k] = dudas[k]
  BY <1>0 DEF Enviar, TiposEnvio, smtp
<1>2. EstaEn(j, "activo") /\ EstaEn(j, "activo")' /\ ~EstaEn(j, "completo")
      /\ ~EstaEn(j, "completo")'
  BY <1>1 DEF IInv, PasoDeActivo, EstaEn
<1>3. aceptados[j] <= dudas[j] /\ aceptados[j] \in Nat /\ dudas[j] \in Nat
  <2>1. ~Conocida(j)
    BY <1>1, <1>2 DEF Conocida
  <2>2. QED
    BY <1>0, <2>1 DEF IInv, Entregas, TiposEnvio
<1>4. \/ aceptados'[j] = aceptados[j] + 1 /\ paso'[j] = "sent" /\ dudas'[j] = dudas[j]
      \/ aceptados'[j] = aceptados[j] + 1 /\ paso'[j] = "failed" /\ dudas'[j] = dudas[j] + 1
      \/ aceptados'[j] = aceptados[j] /\ paso'[j] = "failed" /\ dudas'[j] = dudas[j]
  BY <1>0 DEF Enviar, TiposEnvio, smtp
<1>5. TiposEnvio'
  <2>1. paso' \in [Trabajos -> {"nada", "enviar"} \union Status]
    BY <1>0 DEF Enviar, TiposEnvio, Status
  <2>2. aceptados' \in [Trabajos -> Nat]
    BY <1>0 DEF Enviar, TiposEnvio, smtp
  <2>3. dudas' \in [Trabajos -> Nat]
    BY <1>0 DEF Enviar, TiposEnvio, smtp
  <2>4. QED
    BY <1>0, <1>1, <2>1, <2>2, <2>3 DEF TiposEnvio
<1>6. Entregas!(j)' /\ aceptados'[j] >= aceptados[j]
  BY <1>2, <1>3, <1>4 DEF Conocida
<1>7. PasoDeActivo!(j)' /\ Intentos!(j)'
  BY <1>1, <1>2 DEF IInv, Intentos, EstaEn
<1>8. QED
  BY <1>1, <1>2, <1>5, <1>6, <1>7, SoloUno

LEMMA AnotarMantiene ==
  ASSUME IInv, NEW j \in Trabajos, Anotar(j)
  PROVE  IInv'
<1> DEFINE r == [trabajo |-> j, para |-> cola[j].para, status |-> paso[j]]
<1>1. /\ EstaEn(j, "activo")
      /\ cola[j] \in Trabajo
      /\ paso[j] \in Status
      /\ paso'[j] = "nada"
      /\ UNCHANGED smtp
      /\ \A k \in Trabajos \ {j} : cola'[k] = cola[k] /\ paso'[k] = paso[k]
  BY DEF Anotar, Acabar, IInv, TiposEnvio, PasoDeActivo, Status, EstaEn
<1>2. cola'[j] = [cola[j] EXCEPT !.estado =
                    IF paso[j] # "failed" THEN "completo"
                    ELSE IF cola[j].intentos < MaxIntentos THEN "espera" ELSE "fallido"]
  BY DEF Anotar, Acabar, IInv, TiposEnvio
<1>3. cola'[j] \in Trabajo /\ cola'[j] # NoHay
  BY <1>1, <1>2, TrabajoNoHay DEF Trabajo
<1>4. r \in [trabajo : Trabajos, para : Trabajadores, status : Status]
  BY <1>1 DEF Trabajo
<1>5. registro' = registro \/ registro' = Append(registro, r)
  BY DEF Anotar, Anotado
<1>6. TiposEnvio'
  <2>1. cola' \in [Trabajos -> Trabajo \union {NoHay}]
    BY <1>1, <1>3 DEF Anotar, Acabar, IInv, TiposEnvio
  <2>2. paso' \in [Trabajos -> {"nada", "enviar"} \union Status]
    BY DEF Anotar, IInv, TiposEnvio
  <2>3. registro' \in Seq([trabajo : Trabajos, para : Trabajadores, status : Status])
    <3> HIDE DEF r
    <3>1. registro \in Seq([trabajo : Trabajos, para : Trabajadores, status : Status])
      BY DEF IInv, TiposEnvio
    <3>2. Append(registro, r) \in Seq([trabajo : Trabajos, para : Trabajadores, status : Status])
      BY <1>4, <3>1, AppendProperties
    <3>3. QED
      BY <1>5, <3>1, <3>2
  <2>4. QED
    BY <1>1, <2>1, <2>2, <2>3 DEF IInv, TiposEnvio, smtp
<1>7. Intentos!(j)' /\ PasoDeActivo!(j)'
  BY <1>1, <1>2, <1>3 DEF IInv, Intentos, PasoDeActivo, EstaEn
<1>8. Entregas!(j)' /\ aceptados'[j] >= aceptados[j]
  <2>1. aceptados'[j] = aceptados[j] /\ dudas'[j] = dudas[j]
        /\ aceptados[j] \in Nat /\ dudas[j] \in Nat
    BY <1>1 DEF IInv, TiposEnvio, smtp
  <2>2. aceptados[j] <= 1 + dudas[j]
    BY <2>1 DEF IInv, Entregas
  <2>3. paso[j] = "failed" => aceptados[j] <= dudas[j]
    BY <1>1, <2>1 DEF IInv, Entregas, Conocida, EstaEn
  <2>4. paso[j] = "failed" => cola'[j].estado # "completo"
    BY <1>1, <1>2 DEF Trabajo
  <2>5. paso[j] # "failed" => cola'[j].estado = "completo"
    BY <1>1, <1>2 DEF Trabajo
  <2>6. QED
    BY <1>1, <1>3, <2>1, <2>2, <2>3, <2>4, <2>5 DEF IInv, Entregas, Conocida, EstaEn
<1>9. EstaEn(j, "completo")' /\ Habilitado => aceptados'[j] > 0
  <2>1. EstaEn(j, "completo")' => paso[j] # "failed"
    BY <1>1, <1>2 DEF EstaEn, Trabajo
  <2>2. QED
    BY <1>1, <2>1 DEF IInv, smtp, Status, PasoDeActivo, Entregas
<1>10. r.status = "sent" => aceptados'[r.trabajo] > 0
  BY <1>1 DEF IInv, Entregas, smtp
<1>11. QED
  <2> HIDE DEF r
  <2>1. \A k \in Trabajos \ {j} : cola'[k] = cola[k] /\ paso'[k] = paso[k]
          /\ aceptados'[k] = aceptados[k] /\ dudas'[k] = dudas[k]
    BY <1>1 DEF smtp
  <2>2. QED
    BY <2>1, <1>4, <1>5, <1>6, <1>7, <1>8, <1>9, <1>10, SoloUno

(* The death of the process gives back or fails what was active; the mail  *)
(* it had sent and not written down becomes a doubt.                       *)
LEMMA CaerMantiene ==
  ASSUME IInv, Caer
  PROVE  IInv'
<1>0. TiposEnvio
  BY DEF IInv
<1>1. ASSUME NEW j \in Trabajos
      PROVE  /\ cola'[j] \in Trabajo \union {NoHay}
             /\ ~EstaEn(j, "activo")'
             /\ EstaEn(j, "completo")' => EstaEn(j, "completo")
             /\ EstaEn(j, "completo") => EstaEn(j, "completo")'
             /\ Intentos!(j)'
  <2>1. CASE ~EstaEn(j, "activo")
    <3>1. cola'[j] = cola[j]
      BY <2>1 DEF Caer
    <3>2. QED
      BY <1>0, <2>1, <3>1 DEF IInv, TiposEnvio, EstaEn, Intentos
  <2>2. CASE EstaEn(j, "activo")
    <3>1. /\ cola[j] \in Trabajo
          /\ cola[j].estado = "activo"
          /\ cola[j].intentos > 0
      BY <1>0, <2>2 DEF IInv, TiposEnvio, EstaEn, Intentos
    <3>2. cola'[j] = IF cola[j].devuelto THEN [cola[j] EXCEPT !.estado = "fallido"]
                     ELSE [cola[j] EXCEPT !.estado = "espera", !.devuelto = TRUE,
                                          !.intentos = @ - 1]
      BY <2>2 DEF Caer
    <3>3. CASE cola[j].devuelto
      <4>1. cola'[j] \in Trabajo /\ cola'[j].estado = "fallido"
        BY <3>1, <3>2, <3>3 DEF Trabajo
      <4>2. QED
        BY <4>1, <3>1 DEF EstaEn
    <3>4. CASE ~cola[j].devuelto
      <4>1. cola[j].intentos \in 0 .. MaxIntentos /\ cola[j].intentos - 1 \in 0 .. MaxIntentos
            /\ cola[j].intentos - 1 < MaxIntentos
        BY <3>1, ConstantesCorreo DEF Trabajo
      <4>2. cola'[j] \in Trabajo /\ cola'[j].estado = "espera"
            /\ cola'[j].intentos = cola[j].intentos - 1
        BY <3>1, <3>2, <3>4, <4>1 DEF Trabajo
      <4>3. QED
        BY <4>1, <4>2, <3>1 DEF EstaEn
    <3>5. QED
      BY <3>3, <3>4
  <2>3. QED
    BY <2>1, <2>2
<1>2. \A j \in Trabajos : /\ paso'[j] = "nada"
                          /\ aceptados'[j] = aceptados[j]
                          /\ dudas'[j] = IF paso[j] = "sent" THEN dudas[j] + 1 ELSE dudas[j]
                          /\ dudas[j] \in Nat /\ aceptados[j] \in Nat
  BY <1>0 DEF Caer, TiposEnvio
<1>3. TiposEnvio'
  <2>1. cola' \in [Trabajos -> Trabajo \union {NoHay}]
    BY <1>1 DEF Caer
  <2>2. paso' \in [Trabajos -> {"nada", "enviar"} \union Status]
    BY DEF Caer
  <2>3. dudas' \in [Trabajos -> Nat]
    <3>1. dudas' = [j \in Trabajos |-> IF paso[j] = "sent" THEN dudas[j] + 1 ELSE dudas[j]]
      BY DEF Caer
    <3>2. \A j \in Trabajos : (IF paso[j] = "sent" THEN dudas[j] + 1 ELSE dudas[j]) \in Nat
      BY <1>2
    <3>3. QED
      BY <3>1, <3>2
  <2>4. QED
    BY <1>0, <2>1, <2>2, <2>3 DEF Caer, TiposEnvio
<1>4. PasoDeActivo' /\ Intentos'
  BY <1>1, <1>2 DEF PasoDeActivo, Intentos
<1>5. ASSUME NEW j \in Trabajos
      PROVE  Entregas!(j)'
  <2>1. Conocida(j)' <=> EstaEn(j, "completo")
    BY <1>1, <1>2 DEF Conocida
  <2>2. EstaEn(j, "completo") => paso[j] # "sent"
    BY DEF IInv, PasoDeActivo, EstaEn
  <2>3. aceptados[j] <= (IF Conocida(j) THEN 1 ELSE 0) + dudas[j]
    BY DEF IInv, Entregas
  <2>4. QED
    BY <1>2, <2>1, <2>2, <2>3 DEF Conocida
<1>6. EnviadoDeVerdad'
  <2>1. registro' = registro /\ aceptados' = aceptados
    BY DEF Caer
  <2>2. QED
    BY <1>1, <2>1 DEF IInv, EnviadoDeVerdad
<1>7. QED
  BY <1>3, <1>4, <1>5, <1>6 DEF IInv, Entregas

(* The bulk requests keep their type; the workers are finitely many.       *)
TiposPet == pet \in [Peticiones -> Peticion]

LEMMA EntradaFinita ==
  ASSUME NEW s \in SUBSET Entrada
  PROVE  IsFiniteSet(s) /\ Cardinality(s) \in Nat
<1>1. IsFiniteSet({"no_enviado", "failed", "pedido"})
  <2>1. IsFiniteSet({"no_enviado"}) /\ IsFiniteSet({"failed"}) /\ IsFiniteSet({"pedido"})
    BY FS_Singleton
  <2>2. IsFiniteSet({"no_enviado"} \union {"failed"} \union {"pedido"})
    BY <2>1, FS_Union
  <2>3. {"no_enviado"} \union {"failed"} \union {"pedido"} = {"no_enviado", "failed", "pedido"}
    OBVIOUS
  <2>4. QED
    BY <2>2, <2>3
<1>2. IsFiniteSet(Entrada)
  BY <1>1, ConstantesCorreo, FS_Product DEF Entrada
<1>3. QED
  BY <1>2, FS_Subset, FS_CardinalityType

LEMMA PetMantiene ==
  ASSUME TiposPet, [Next]_vars
  PROVE  TiposPet'
<1>1. CASE pet' = pet
  BY <1>1 DEF TiposPet
<1>2. Ociosa \in Peticion
  BY DEF Ociosa, Peticion
<1>3. ASSUME NEW p \in Peticiones, Atender(p)
      PROVE  TiposPet'
  <2>0. pet[p] \in Peticion
    BY DEF TiposPet
  <2>1. ASSUME NEW r \in Peticion, pet' = [pet EXCEPT ![p] = r]
        PROVE  TiposPet'
    BY <2>1 DEF TiposPet
  <2>2. CASE PedirReenvio(p)
    <3>1. PICK e \in {"no_enviado", "failed"} :
            pet' = [pet EXCEPT ![p] = [Ociosa EXCEPT !.fase = "segunda", !.lista = Otra(e),
                                                     !.ids = Cobertura(e)]]
      BY <2>2 DEF PedirReenvio
    <3>2. Cobertura(e) \in SUBSET Entrada /\ Otra(e) \in {"no_enviado", "failed"}
      BY DEF Cobertura, Entrada, Otra
    <3>3. [Ociosa EXCEPT !.fase = "segunda", !.lista = Otra(e), !.ids = Cobertura(e)] \in Peticion
      BY <3>2 DEF Ociosa, Peticion
    <3>4. QED
      BY <2>1, <3>1, <3>3
  <2>3. CASE SegundaLista(p)
    <3>1. PICK s \in SUBSET Unicos(pet[p].ids \union Cobertura(pet[p].lista)) :
            pet' = [pet EXCEPT ![p].ids = s, ![p].pedidos = Cardinality(s),
                               ![p].fase = IF s = {} THEN "fin" ELSE "bucle"]
      BY <2>3 DEF SegundaLista
    <3>2. s \in SUBSET Entrada
      BY <2>0 DEF Unicos, Cobertura, Entrada, Peticion
    <3>3. Cardinality(s) \in Nat
      BY <3>2, EntradaFinita
    <3>4. QED
      BY <2>0, <3>1, <3>2, <3>3 DEF TiposPet, Peticion
  <2>4. ASSUME NEW ws \in SUBSET Trabajadores, PedirReenvioDe(p, ws)
        PROVE  TiposPet'
    <3>1. ws \X {"pedido"} \in SUBSET Entrada
      BY DEF Entrada
    <3>2. Cardinality(ws) \in Nat
      BY ConstantesCorreo, FS_Subset, FS_CardinalityType
    <3>3. [Ociosa EXCEPT !.fase = "bucle", !.ids = ws \X {"pedido"},
                         !.pedidos = Cardinality(ws)] \in Peticion
      BY <3>1, <3>2 DEF Ociosa, Peticion
    <3>4. QED
      BY <2>1, <2>4, <3>3 DEF PedirReenvioDe
  <2>5. CASE Reenviar(p)
    <3>1. PICK e \in pet[p].ids :
            LET quedan == pet[p].ids \ {e} IN
            \/ pet' = [pet EXCEPT ![p].ids = quedan, ![p].encolados = @ + 1,
                                  ![p].fase = FaseTras(quedan)]
            \/ pet' = [pet EXCEPT ![p].ids = quedan, ![p].fallidos = @ + 1,
                                  ![p].fase = FaseTras(quedan)]
      BY <2>5 DEF Reenviar
    <3>2. pet[p].ids \ {e} \in SUBSET Entrada /\ FaseTras(pet[p].ids \ {e}) \in {"fin", "bucle"}
      BY <2>0 DEF FaseTras, Peticion
    <3>3. QED
      BY <2>0, <3>1, <3>2 DEF TiposPet, Peticion
  <2>6. CASE Responder(p)
    BY <1>2, <2>1, <2>6 DEF Responder
  <2>7. QED
    BY <1>3, <2>2, <2>3, <2>4, <2>5, <2>6 DEF Atender
<1>4. CASE Caer
  BY <1>2, <1>4 DEF Caer, TiposPet
<1>5. QED
  BY <1>1, <1>3, <1>4 DEF Next, Bienvenida, Trabajar, Procesar, Enviar, Anotar, vars

LEMMA Paso ==
  ASSUME IInv, TiposPet, [Next]_vars
  PROVE  IInv'
<1>1. ASSUME UNCHANGED <<cola, paso, registro, smtp>>
      PROVE  IInv'
  BY <1>1 DEF IInv, TiposEnvio, PasoDeActivo, Intentos, Entregas, EnviadoDeVerdad,
              Conocida, EstaEn, smtp
<1>2. ASSUME NEW w \in Trabajadores, Bienvenida(w)
      PROVE  IInv'
  BY <1>2, EncolarMantiene DEF Bienvenida
<1>3. ASSUME NEW j \in Trabajos, Trabajar(j)
      PROVE  IInv'
  BY <1>3, ProcesarMantiene, EnviarMantiene, AnotarMantiene DEF Trabajar
<1>4. ASSUME NEW p \in Peticiones, Reenviar(p)
      PROVE  IInv'
  <2>1. PICK e \in pet[p].ids : Encolar(e[1], p) \/ UNCHANGED cola
    BY <1>4 DEF Reenviar
  <2>2. e[1] \in Trabajadores
    BY DEF TiposPet, Peticion, Entrada
  <2>3. UNCHANGED <<paso, registro, smtp>>
    BY <1>4 DEF Reenviar
  <2>4. QED
    BY <1>1, <2>1, <2>2, <2>3, EncolarMantiene
<1>5. CASE Caer
  BY <1>5, CaerMantiene
<1>6. ASSUME NEW p \in Peticiones, Atender(p)
      PROVE  IInv'
  BY <1>1, <1>4, <1>6
  DEF Atender, PedirReenvio, SegundaLista, PedirReenvioDe, Responder
<1>7. QED
  BY <1>1, <1>2, <1>3, <1>5, <1>6 DEF Next, vars

(* The mail, its log and the requests have their types.                    *)
THEOREM CorreoTypeOK == Spec => []TypeOK
<1>1. Init => IInv /\ TiposPet /\ caidas \in 0 .. MaxCaidas
  BY Inicio, ConstantesCorreo DEF Init, TiposPet, Peticion, Ociosa
<1>2. IInv /\ TiposPet /\ caidas \in 0 .. MaxCaidas /\ [Next]_vars
      => (IInv /\ TiposPet /\ caidas \in 0 .. MaxCaidas)'
  <2>1. caidas \in 0 .. MaxCaidas /\ [Next]_vars => (caidas \in 0 .. MaxCaidas)'
    <3>1. Caer => caidas < MaxCaidas /\ caidas' = caidas + 1
      BY DEF Caer
    <3>2. [Next]_vars => Caer \/ caidas' = caidas
      BY DEF Next, vars, Bienvenida, Trabajar, Procesar, Enviar, Anotar, Atender,
             PedirReenvio, SegundaLista, PedirReenvioDe, Reenviar, Responder
    <3>3. QED
      BY <3>1, <3>2, ConstantesCorreo
  <2>2. QED
    BY <2>1, Paso, PetMantiene
<1>3. IInv /\ TiposPet /\ caidas \in 0 .. MaxCaidas => TypeOK
  BY DEF IInv, TiposPet, TypeOK
<1>4. QED
  BY <1>1, <1>2, <1>3, PTL DEF Spec

LEMMA SiempreIInv == Spec => []IInv
<1>1. Init => IInv /\ TiposPet
  BY Inicio DEF Init, TiposPet, Peticion, Ociosa
<1>2. IInv /\ TiposPet /\ [Next]_vars => (IInv /\ TiposPet)'
  BY Paso, PetMantiene
<1>3. QED
  BY <1>1, <1>2, PTL DEF Spec

(* A mail is accepted more than once only when the process could not know  *)
(* that it had been: whatever the retries, the deaths and the failures of  *)
(* the log.                                                                *)
THEOREM UnaSolaEntrega == Spec => []UnaEntrega
<1>1. IInv => UnaEntrega
  BY DEF IInv, TiposEnvio, Entregas, UnaEntrega
<1>2. QED
  BY <1>1, SiempreIInv, PTL

(* No row says sent, and no job is complete, of a mail nobody accepted.    *)
THEOREM LoEnviadoSeEnvio == Spec => []EnviadoDeVerdad
<1>1. IInv => EnviadoDeVerdad
  BY DEF IInv
<1>2. QED
  BY <1>1, SiempreIInv, PTL
-----------------------------------------------------------------------------
(***************************************************************************)
(* The bulk requests: what is left of the list counts as well, whatever    *)
(* the phase, and the first listing has no entry of another kind.          *)
(***************************************************************************)
Cuadra(p) ==
  LET r == pet[p] IN
  /\ r.fase = "segunda" =>
       /\ r.encolados = 0 /\ r.fallidos = 0
       /\ \A e \in r.ids : e[2] \in {"no_enviado", "failed"}
  /\ r.fase \in {"bucle", "fin"} =>
       /\ \A e, f \in r.ids : e[1] = f[1] => e = f
       /\ r.encolados + r.fallidos + Cardinality(r.ids) = r.pedidos
  /\ r.fase = "fin" => r.ids = {}

(* Among the entries of the two listings, Unicos keeps one of each worker. *)
LEMMA UnicosUnaPorTrabajador ==
  ASSUME NEW s \in SUBSET Entrada, \A e \in s : e[2] \in {"no_enviado", "failed"},
         NEW e \in Unicos(s), NEW f \in Unicos(s), e[1] = f[1]
  PROVE  e = f
<1>1. /\ e \in s /\ f \in s
      /\ e[2] = "failed" \/ <<e[1], "failed">> \notin s
      /\ f[2] = "failed" \/ <<f[1], "failed">> \notin s
  BY DEF Unicos
<1>2. e = <<e[1], e[2]>> /\ f = <<f[1], f[2]>>
  BY <1>1 DEF Entrada
<1>3. e[2] = f[2]
  BY <1>1, <1>2
<1>4. QED
  BY <1>2, <1>3

LEMMA ListarCuadra ==
  ASSUME TiposPet, NEW p \in Peticiones, Cuadra(p), PedirReenvio(p) \/ SegundaLista(p)
  PROVE  Cuadra(p)'
<1>0. pet[p] \in Peticion /\ pet \in [Peticiones -> Peticion]
  BY DEF TiposPet
<1>1. CASE PedirReenvio(p)
  <2>1. PICK e \in {"no_enviado", "failed"} :
          pet' = [pet EXCEPT ![p] = [Ociosa EXCEPT !.fase = "segunda", !.lista = Otra(e),
                                                   !.ids = Cobertura(e)]]
    BY <1>1 DEF PedirReenvio
  <2>2. /\ pet'[p].fase = "segunda" /\ pet'[p].encolados = 0 /\ pet'[p].fallidos = 0
        /\ pet'[p].ids = Cobertura(e)
    BY <1>0, <2>1 DEF Ociosa
  <2>3. \A x \in Cobertura(e) : x[2] = e
    BY DEF Cobertura
  <2>4. QED
    BY <2>2, <2>3 DEF Cuadra
<1>2. CASE SegundaLista(p)
  <2>1. PICK u : u = pet[p].ids \union Cobertura(pet[p].lista)
    OBVIOUS
  <2>2. u \in SUBSET Entrada /\ \A e \in u : e[2] \in {"no_enviado", "failed"}
    BY <1>0, <1>2, <2>1 DEF SegundaLista, Cuadra, Cobertura, Entrada, Peticion
  <2>3. PICK s \in SUBSET Unicos(u) :
          pet' = [pet EXCEPT ![p].ids = s, ![p].pedidos = Cardinality(s),
                             ![p].fase = IF s = {} THEN "fin" ELSE "bucle"]
    BY <1>2, <2>1 DEF SegundaLista
  <2>4. /\ pet'[p].ids = s /\ pet'[p].pedidos = Cardinality(s)
        /\ pet'[p].fase = IF s = {} THEN "fin" ELSE "bucle"
        /\ pet'[p].encolados = 0 /\ pet'[p].fallidos = 0
    BY <1>0, <1>2, <2>3 DEF SegundaLista, Cuadra, Peticion
  <2>5. \A e, f \in s : e[1] = f[1] => e = f
    BY <2>2, <2>3, UnicosUnaPorTrabajador
  <2>6. Cardinality(s) \in Nat
    BY <2>2, <2>3, EntradaFinita DEF Unicos
  <2>7. QED
    BY <2>4, <2>5, <2>6 DEF Cuadra
<1>3. QED
  BY <1>1, <1>2

LEMMA NombrarCuadra ==
  ASSUME TiposPet, NEW p \in Peticiones, NEW ws \in SUBSET Trabajadores, PedirReenvioDe(p, ws)
  PROVE  Cuadra(p)'
<1>1. /\ pet'[p].fase = "bucle" /\ pet'[p].ids = ws \X {"pedido"}
      /\ pet'[p].pedidos = Cardinality(ws) /\ pet'[p].encolados = 0 /\ pet'[p].fallidos = 0
  BY DEF PedirReenvioDe, TiposPet, Ociosa
<1>2. \A e, f \in ws \X {"pedido"} : e[1] = f[1] => e = f
  OBVIOUS
<1>3. Cardinality(ws \X {"pedido"}) = Cardinality(ws) /\ Cardinality(ws) \in Nat
  <2>1. IsFiniteSet(ws) /\ Cardinality(ws) \in Nat
    BY ConstantesCorreo, FS_Subset, FS_CardinalityType
  <2>2. IsFiniteSet({"pedido"}) /\ Cardinality({"pedido"}) = 1
    BY FS_Singleton
  <2>3. Cardinality(ws \X {"pedido"}) = Cardinality(ws) * Cardinality({"pedido"})
    BY <2>1, <2>2, FS_Product
  <2>4. QED
    BY <2>1, <2>2, <2>3
<1>4. QED
  BY <1>1, <1>2, <1>3 DEF Cuadra

LEMMA ReenviarCuadra ==
  ASSUME TiposPet, NEW p \in Peticiones, Cuadra(p), Reenviar(p)
  PROVE  Cuadra(p)'
<1>1. /\ pet[p] \in Peticion /\ pet[p].fase = "bucle" /\ pet[p].ids \in SUBSET Entrada
      /\ pet[p].encolados \in Nat /\ pet[p].fallidos \in Nat
  BY DEF TiposPet, Reenviar, Peticion
<1>2. PICK e \in pet[p].ids :
        \/ pet' = [pet EXCEPT ![p].ids = pet[p].ids \ {e}, ![p].encolados = @ + 1,
                              ![p].fase = FaseTras(pet[p].ids \ {e})]
        \/ pet' = [pet EXCEPT ![p].ids = pet[p].ids \ {e}, ![p].fallidos = @ + 1,
                              ![p].fase = FaseTras(pet[p].ids \ {e})]
  BY DEF Reenviar
<1>3. /\ pet'[p].ids = pet[p].ids \ {e} /\ pet'[p].fase = FaseTras(pet[p].ids \ {e})
      /\ pet'[p].pedidos = pet[p].pedidos
      /\ \/ pet'[p].encolados = pet[p].encolados + 1 /\ pet'[p].fallidos = pet[p].fallidos
         \/ pet'[p].encolados = pet[p].encolados /\ pet'[p].fallidos = pet[p].fallidos + 1
  BY <1>1, <1>2 DEF TiposPet, Peticion
<1>4. /\ Cardinality(pet[p].ids \ {e}) = Cardinality(pet[p].ids) - 1
      /\ Cardinality(pet[p].ids) \in Nat
  BY <1>1, EntradaFinita, FS_RemoveElement
<1>5. QED
  BY <1>1, <1>3, <1>4 DEF Cuadra, FaseTras

LEMMA PasoCuadra ==
  ASSUME TiposPet, \A p \in Peticiones : Cuadra(p), [Next]_vars
  PROVE  \A p \in Peticiones : Cuadra(p)'
<1>1. CASE pet' = pet
  BY <1>1 DEF Cuadra
<1>2. ASSUME NEW p \in Peticiones, pet'[p] = Ociosa
      PROVE  Cuadra(p)'
  BY <1>2 DEF Cuadra, Ociosa
<1>3. ASSUME NEW p \in Peticiones, Atender(p)
      PROVE  \A q \in Peticiones : Cuadra(q)'
  <2>1. \A q \in Peticiones \ {p} : pet'[q] = pet[q]
    BY <1>3 DEF Atender, PedirReenvio, SegundaLista, PedirReenvioDe, Reenviar, Responder, TiposPet
  <2>2. Responder(p) => Cuadra(p)'
    BY <1>2 DEF Responder, TiposPet
  <2>3. Cuadra(p)'
    BY <1>3, <2>2, ListarCuadra, NombrarCuadra, ReenviarCuadra DEF Atender
  <2>4. QED
    BY <2>1, <2>3 DEF Cuadra
<1>4. CASE Caer
  BY <1>2, <1>4 DEF Caer
<1>5. QED
  BY <1>1, <1>3, <1>4 DEF Next, Bienvenida, Trabajar, Procesar, Enviar, Anotar, vars

(* A bulk request answers for each worker once: no entry of the two        *)
(* listings is lost or counted twice, even when a worker moved between     *)
(* them, whatever fails in the loop.                                       *)
THEOREM ElReenvioCuadra == Spec => []ReenvioCuadra
<1>1. Init => TiposPet /\ \A p \in Peticiones : Cuadra(p)
  BY DEF Init, TiposPet, Peticion, Ociosa, Cuadra
<1>2. TiposPet /\ (\A p \in Peticiones : Cuadra(p)) /\ [Next]_vars
      => (TiposPet /\ \A p \in Peticiones : Cuadra(p))'
  BY PetMantiene, PasoCuadra
<1>3. TiposPet /\ (\A p \in Peticiones : Cuadra(p)) => ReenvioCuadra
  <2> SUFFICES ASSUME TiposPet, NEW p \in Peticiones, Cuadra(p), pet[p].fase \in {"bucle", "fin"}
               PROVE  ReenvioCuadra!(p)!2
    BY DEF ReenvioCuadra
  <2>1. /\ pet[p].ids \in SUBSET Entrada /\ pet[p].encolados \in Nat /\ pet[p].fallidos \in Nat
    BY DEF TiposPet, Peticion
  <2>2. Cardinality(pet[p].ids) \in Nat /\ Cardinality({}) = 0
    BY <2>1, EntradaFinita, FS_EmptySet
  <2>3. QED
    BY <2>1, <2>2 DEF Cuadra
<1>4. QED
  BY <1>1, <1>2, <1>3, PTL DEF Spec
=============================================================================
