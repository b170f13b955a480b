------------------------------- MODULE MCServices -------------------------------
(***************************************************************************)
(* Model checking of the services of core 0 that do not depend on each     *)
(* other: the sensor bus, the CAN bus and the web apps.  They share no     *)
(* state and no lock, so that what one of them can do does not depend on   *)
(* the others; one, chosen at the beginning, takes all the steps.          *)
(***************************************************************************)
EXTENDS I2cService, CanService, AppStore, TLC

VARIABLE service    \* the service that is checked

servicesVars == <<service, i2cVars, canVars, appVars>>

MCSensors == (11 :> "LC709203F") @@ (118 :> "BME688")

MCAdds == {[slot |-> 1, kind |-> "LC709203F", address |-> 11],
           [slot |-> 2, kind |-> "LC709203F", address |-> 11],
           [slot |-> 1, kind |-> "BME688", address |-> 118]}

ServicesInit ==
  /\ service \in {"i2c", "can", "apps"}
  /\ I2cInit /\ CanInit /\ AppInit
  /\ service # "apps" => formatted

OfI2c(A) == service = "i2c" /\ A /\ UNCHANGED <<service, canVars, appVars>>
OfCan(A) == service = "can" /\ A /\ UNCHANGED <<service, i2cVars, appVars>>
OfApps(A) == service = "apps" /\ A /\ UNCHANGED <<service, i2cVars, canVars>>

ServicesNext == OfI2c(I2cNext) \/ OfCan(CanNext) \/ OfApps(AppNext)

ServicesSpec == ServicesInit /\ [][ServicesNext]_servicesVars

ServicesTypeOK == I2cTypeOK /\ CanTypeOK /\ AppTypeOK

\* Callers of the I2C and the CAN service, whose replies bear no number, are out of
\* step with the replies by as many calls as have been given up, and in step again
\* when all is answered: I2cKeepsStep and CanKeepsStep.
AnswersKeepStep == I2cKeepsStep /\ CanKeepsStep
================================================================================
