------------------------------- MODULE Correo -------------------------------
(***************************************************************************)
(* The welcome mail: the queue "mail" and its worker, the sending of a     *)
(* job, the log of what was sent, and sending again those of the workers   *)
(* that have none, or a failed one.                                        *)
(*                                                                         *)
(* External: BullMQ (attempts, concurrency, and the jobs of a process that *)
(* dies, which it gives back once), the SMTP server, and the SQL that      *)
(* tells the state of a worker by the last row of the log.                 *)
(***************************************************************************)
EXTENDS Integers, Sequences, FiniteSets

CONSTANTS
  Trabajadores,  (* the people the mail is for                               *)
  Trabajos,      (* jobs, a bound on what is enqueued                        *)
  Peticiones,    (* bulk requests that may be in flight at once              *)
  NoHay,
  MaxIntentos,   (* attempts of a job, 5 in the code                         *)
  Concurrencia,  (* jobs under way at once, 3 in the code                    *)
  MaxReenvio,    (* MAX_BULK_RESEND, 50 in the code                          *)
  MaxCaidas,     (* bound on the deaths of the process                       *)
  Habilitado     (* MAIL_ENABLED                                             *)

ASSUME ConstantesCorreo ==
  /\ MaxIntentos \in Nat \ {0}
  /\ Concurrencia \in Nat \ {0}
  /\ MaxReenvio \in Nat \ {0}
  /\ MaxCaidas \in Nat
  /\ Habilitado \in BOOLEAN
  /\ NoHay \notin Peticiones
  /\ IsFiniteSet(Trabajadores)

VARIABLES
  cola,       (* the jobs                                                    *)
  paso,       (* what the worker of an active job is about to do             *)
  registro,   (* email_dispatch_logs                                         *)
  aceptados,  (* times the SMTP server accepted the mail of each job         *)
  dudas,      (* times the process did not get to know that it had           *)
  caidas,     (* deaths of the process                                       *)
  pet         (* the bulk requests                                           *)

smtp == <<aceptados, dudas>>
vars == <<cola, paso, registro, smtp, caidas, pet>>

Status == {"sent", "failed", "skipped"}
Estados == {"no_enviado"} \union Status
Trabajo == [para : Trabajadores, de : Peticiones \union {NoHay}, intentos : 0 .. MaxIntentos,
            devuelto : BOOLEAN, estado : {"espera", "activo", "completo", "fallido"}]
Entrada == Trabajadores \X {"no_enviado", "failed", "pedido"}
ASSUME TrabajoNoHay == NoHay \notin Trabajo

Peticion == [fase : {"libre", "segunda", "bucle", "fin"}, lista : {"no_enviado", "failed"},
             ids : SUBSET Entrada, pedidos : Nat, encolados : Nat, fallidos : Nat]
Ociosa == [fase |-> "libre", lista |-> "failed", ids |-> {},
           pedidos |-> 0, encolados |-> 0, fallidos |-> 0]

TiposEnvio ==
  /\ cola \in [Trabajos -> Trabajo \union {NoHay}]
  /\ paso \in [Trabajos -> {"nada", "enviar"} \union Status]
  /\ registro \in Seq([trabajo : Trabajos, para : Trabajadores, status : Status])
  /\ aceptados \in [Trabajos -> Nat]
  /\ dudas \in [Trabajos -> Nat]

TypeOK ==
  /\ TiposEnvio
  /\ caidas \in 0 .. MaxCaidas
  /\ pet \in [Peticiones -> Peticion]

Init ==
  /\ cola = [j \in Trabajos |-> NoHay]
  /\ paso = [j \in Trabajos |-> "nada"]
  /\ registro = <<>>
  /\ aceptados = [j \in Trabajos |-> 0]
  /\ dudas = [j \in Trabajos |-> 0]
  /\ caidas = 0
  /\ pet = [p \in Peticiones |-> Ociosa]

EstaEn(j, e) == cola[j] # NoHay /\ cola[j].estado = e
Activos == {j \in Trabajos : EstaEn(j, "activo")}

\* Mutant: a mail with no address is enqueued.
EncolarSinDestino(w, p) ==
  \E j \in Trabajos :
    /\ cola[j] = NoHay
    /\ cola' = [cola EXCEPT ![j] = [para |-> NoHay, de |-> p, intentos |-> 0,
                                    devuelto |-> FALSE, estado |-> "espera"]]

(* Takes any free job id; the queue is by job, whatever its order.         *)
Encolar(w, p) ==
  \E j \in Trabajos :
    /\ cola[j] = NoHay
    /\ cola' = [cola EXCEPT ![j] = [para |-> w, de |-> p, intentos |-> 0,
                                    devuelto |-> FALSE, estado |-> "espera"]]
-----------------------------------------------------------------------------
(* EnviarCorreoBienvenidaUseCase after a worker is created.  If the queue  *)
(* is down the creation goes on without the mail.                          *)
Bienvenida(w) ==
  /\ Encolar(w, NoHay)
  /\ UNCHANGED <<paso, registro, smtp, caidas, pet>>

(* ReenviarPendientesMailEnvioUseCase: two listings, read apart.           *)
EstadoDe(w) ==
  LET suyas == SelectSeq(registro, LAMBDA r : r.para = w)
  IN IF suyas = <<>> THEN "no_enviado" ELSE suyas[Len(suyas)].status

Cobertura(e) == {w \in Trabajadores : EstadoDe(w) = e} \X {e}

Otra(e) == IF e = "failed" THEN "no_enviado" ELSE "failed"

PedirReenvio(p) ==
  /\ pet[p].fase = "libre"
  /\ \E e \in {"no_enviado", "failed"} :
       pet' = [pet EXCEPT ![p] = [Ociosa EXCEPT !.fase = "segunda", !.lista = Otra(e),
                                                !.ids = Cobertura(e)]]
  /\ UNCHANGED <<cola, paso, registro, smtp, caidas>>

\* Mutant: the two listings are joined as they are.
UnicosTodos(s) == s

(* The map by worker: the failed one, put last, is the one that stays.     *)
Unicos(s) == {e \in s : e[2] = "failed" \/ <<e[1], "failed">> \notin s}

SegundaLista(p) ==
  /\ pet[p].fase = "segunda"
  /\ LET u == Unicos(pet[p].ids \union Cobertura(pet[p].lista)) IN
     \E s \in SUBSET u :
       /\ Cardinality(s) = IF Cardinality(u) > MaxReenvio THEN MaxReenvio ELSE Cardinality(u)
       /\ pet' = [pet EXCEPT ![p].ids = s, ![p].pedidos = Cardinality(s),
                             ![p].fase = IF s = {} THEN "fin" ELSE "bucle"]
  /\ UNCHANGED <<cola, paso, registro, smtp, caidas>>

(* The request names the workers.                                          *)
PedirReenvioDe(p, ws) ==
  /\ pet[p].fase = "libre"
  /\ ws # {}
  /\ Cardinality(ws) <= MaxReenvio
  /\ pet' = [pet EXCEPT ![p] = [Ociosa EXCEPT !.fase = "bucle", !.ids = ws \X {"pedido"},
                                              !.pedidos = Cardinality(ws)]]
  /\ UNCHANGED <<cola, paso, registro, smtp, caidas>>

FaseTras(ids) == IF ids = {} THEN "fin" ELSE "bucle"

(* One turn of the loop: the worker may be missing, have no address, or    *)
(* the queue may fail.                                                     *)
Reenviar(p) ==
  /\ pet[p].fase = "bucle"
  /\ \E e \in pet[p].ids :
       LET quedan == pet[p].ids \ {e} IN
       \/ /\ Encolar(e[1], p)
          /\ pet' = [pet EXCEPT ![p].ids = quedan, ![p].encolados = @ + 1,
                                ![p].fase = FaseTras(quedan)]
       \/ /\ pet' = [pet EXCEPT ![p].ids = quedan, ![p].fallidos = @ + 1,
                                ![p].fase = FaseTras(quedan)]
          /\ UNCHANGED cola
  /\ UNCHANGED <<paso, registro, smtp, caidas>>
-----------------------------------------------------------------------------
(* MailQueueProcessor takes a job.                                         *)
Procesar(j) ==
  /\ EstaEn(j, "espera")
  /\ Cardinality(Activos) < Concurrencia
  /\ cola' = [cola EXCEPT ![j].estado = "activo", ![j].intentos = @ + 1]
  /\ paso' = [paso EXCEPT ![j] = IF Habilitado THEN "enviar" ELSE "skipped"]
  /\ UNCHANGED <<registro, smtp, caidas, pet>>

(* The template is rendered and the mail given to the SMTP server, which   *)
(* accepts it, with or without its answer arriving, or does not.           *)
Enviar(j) ==
  /\ paso[j] = "enviar"
  /\ \/ /\ aceptados' = [aceptados EXCEPT ![j] = @ + 1]
        /\ \/ paso' = [paso EXCEPT ![j] = "sent"] /\ UNCHANGED dudas
           \/ /\ paso' = [paso EXCEPT ![j] = "failed"]
              /\ dudas' = [dudas EXCEPT ![j] = @ + 1]
     \/ paso' = [paso EXCEPT ![j] = "failed"] /\ UNCHANGED smtp
  /\ UNCHANGED <<cola, registro, caidas, pet>>

Anotado(j) == Append(registro, [trabajo |-> j, para |-> cola[j].para, status |-> paso[j]])

Acabar(j, bien) ==
  cola' = [cola EXCEPT ![j].estado =
             IF bien THEN "completo"
             ELSE IF cola[j].intentos < MaxIntentos THEN "espera" ELSE "fallido"]

\* Mutant: an error of the log is not swallowed, and the catch runs.
AnotarSinTragar(j) ==
  /\ paso[j] \in Status
  /\ \/ /\ registro' = Anotado(j)
        /\ Acabar(j, paso[j] # "failed")
     \/ Acabar(j, FALSE) /\ UNCHANGED registro
  /\ paso' = [paso EXCEPT ![j] = "nada"]
  /\ UNCHANGED <<smtp, caidas, pet>>

\* Mutant: the status is that of the attempt, not of its result.
AnotarSiempreEnviado(j) ==
  /\ paso[j] \in Status
  /\ registro' = Append(registro, [trabajo |-> j, para |-> cola[j].para, status |-> "sent"])
  /\ Acabar(j, paso[j] # "failed")
  /\ paso' = [paso EXCEPT ![j] = "nada"]
  /\ UNCHANGED <<smtp, caidas, pet>>

(* The row is inserted, or its failure swallowed; then the job ends well,  *)
(* or the error goes to the queue.                                         *)
Anotar(j) ==
  /\ paso[j] \in Status
  /\ registro' \in {Anotado(j), registro}
  /\ Acabar(j, paso[j] # "failed")
  /\ paso' = [paso EXCEPT ![j] = "nada"]
  /\ UNCHANGED <<smtp, caidas, pet>>

(* The process dies: its jobs go back to the queue, but those that already *)
(* went back once fail; its requests are lost.                             *)
Caer ==
  /\ caidas < MaxCaidas
  /\ caidas' = caidas + 1
  /\ cola' = [j \in Trabajos |->
       IF ~EstaEn(j, "activo") THEN cola[j]
       ELSE IF cola[j].devuelto THEN [cola[j] EXCEPT !.estado = "fallido"]
       ELSE [cola[j] EXCEPT !.estado = "espera", !.devuelto = TRUE, !.intentos = @ - 1]]
  /\ dudas' = [j \in Trabajos |-> IF paso[j] = "sent" THEN dudas[j] + 1 ELSE dudas[j]]
  /\ paso' = [j \in Trabajos |-> "nada"]
  /\ pet' = [p \in Peticiones |-> Ociosa]
  /\ UNCHANGED <<registro, aceptados>>

Responder(p) ==
  /\ pet[p].fase = "fin"
  /\ pet' = [pet EXCEPT ![p] = Ociosa]
  /\ UNCHANGED <<cola, paso, registro, smtp, caidas>>

Trabajar(j) == Procesar(j) \/ Enviar(j) \/ Anotar(j)

Atender(p) ==
  \/ PedirReenvio(p)
  \/ SegundaLista(p)
  \/ \E ws \in SUBSET Trabajadores : PedirReenvioDe(p, ws)
  \/ Reenviar(p)
  \/ Responder(p)

Next ==
  \/ \E w \in Trabajadores : Bienvenida(w)
  \/ \E j \in Trabajos : Trabajar(j)
  \/ \E p \in Peticiones : Atender(p)
  \/ Caer

Spec == Init /\ [][Next]_vars

-----------------------------------------------------------------------------
(* A job is accepted by the server more than once only as many times as    *)
(* the process died, or lost the answer, before it knew: neither retries   *)
(* nor failures of the log send it again.                                  *)
UnaEntrega == \A j \in Trabajos : aceptados[j] <= 1 + dudas[j]

(* What the log calls sent, and a job that is complete, was accepted.      *)
EnviadoDeVerdad ==
  /\ \A i \in 1 .. Len(registro) :
       registro[i].status = "sent" => aceptados[registro[i].trabajo] > 0
  /\ Habilitado => \A j \in Trabajos : EstaEn(j, "completo") => aceptados[j] > 0

(* The answer of a bulk request accounts for every worker once: while it   *)
(* runs no worker is in its list twice, although one may move from one     *)
(* listing to the other between them, and what it enqueued, what failed    *)
(* and what is left add up to the workers it was about.                    *)
ReenvioCuadra ==
  \A p \in Peticiones : pet[p].fase \in {"bucle", "fin"} =>
    /\ \A e, f \in pet[p].ids : e[1] = f[1] => e = f
    /\ pet[p].encolados + pet[p].fallidos
         + (IF pet[p].fase = "bucle" THEN Cardinality(pet[p].ids) ELSE 0) = pet[p].pedidos
=============================================================================
