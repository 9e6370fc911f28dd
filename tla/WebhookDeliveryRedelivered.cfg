\* A delivered event is asked for again.
SPECIFICATION Spec
CONSTANTS
    Sink = {s1}
    Delivery = {d1}
    Dispatcher = {w1}
    MaxDeliveryAttempts = 1
    MaxVersion = 1
    MaxRedelivery = 1
    MaxFaults = 0
    Nobody = Nobody
    NoDelivery = NoDelivery
    NoSink = NoSink
PROPERTIES DeliveredStays
CHECK_DEADLOCK FALSE
