------------------------------ MODULE ProbeTables ------------------------------
(***************************************************************************)
(* What the probe (or module init) and the remove (or exit) function of    *)
(* each driver of the repository acquire and give back, and in what order. *)
(*                                                                         *)
(* A probe is a sequence of steps. A step gets one thing; when it fails    *)
(* the function gives back the things in "undo", in that order, and        *)
(* "returns" an error, or 0 (Success), or dies on the way (Oops). A step    *)
(* that only stores into memory or initialises cannot fail ("never").      *)
(* What devm_ functions got is given back by the driver core, after an     *)
(* error as after remove, and is written into the lists here.              *)
(*                                                                         *)
(*   mem     the driver's structure (kmalloc, kzalloc, devm_)              *)
(*   region  request_mem_region       map    ioremap                       *)
(*   number  the device number        cdev   cdev_add                      *)
(*   class   class_create             device device_create                 *)
(*   clk     clk_get                  gpio, irq  devm_ requests            *)
(*   adapter i2c_add_numbered_adapter  cpufreq  its frequency notifier     *)
(*   parent  the resource of the platform device itself                    *)
(* The rest are facts, with nothing to give back: a resource found in the  *)
(* device tree, a field or a wait queue initialised.                       *)
(***************************************************************************)
EXTENDS Sequences

Owned == {"mem", "region", "map", "number", "cdev", "class", "device", "clk",
          "gpio", "irq", "adapter", "cpufreq"}
Fact  == {"irq_num", "res", "property", "gpio_num", "waitq", "fields",
          "client", "bottom_half", "pdata", "init", "drvdata"}
Thing == Owned \cup Fact \cup {"parent"}

Error   == {"error"}
Success == {"ok"}
Oops    == {"oops"}

Step(gets, undo, returns) == [gets |-> gets, undo |-> undo, returns |-> returns]
Set(fact) == Step(fact, <<>>, {})

-----------------------------------------------------------------------------
(* adc_driver.c: the ladder of register_exynosadc_chrdev ends in a kfree   *)
(* that exynosadc_probe repeats; a failing clk_get leaves the ladder by a  *)
(* plain return; what is given back for the region is the parent.          *)
AdcSteps ==
    <<Step("mem",     <<>>, Error),
      Step("irq_num", <<"mem">>, Error),
      Step("res",     <<"mem">>, Error),
      Step("region",  <<"mem">>, Error),
      Step("map",     <<"parent", "mem">>, Error),
      Step("number",  <<"mem", "map", "parent", "mem">>, Error),
      Step("cdev",    <<"number", "mem", "map", "parent", "mem">>, Error),
      Step("class",   <<"cdev", "number", "mem", "map", "parent", "mem">>,
           Error),
      Step("device",
           <<"class", "cdev", "number", "mem", "map", "parent", "mem">>, Error),
      Step("clk",     <<"map", "parent", "mem">>, Error),
      Set("waitq")>>

AdcRemove ==
    <<"device", "class", "cdev", "number", "map", "parent", "mem">>

-----------------------------------------------------------------------------
(* led_driver.c: err still holds the 0 of cdev_add when class_create or    *)
(* device_create fails; each label also undoes the step that failed.       *)
LedSteps ==
    <<Step("mem",    <<>>, Error),
      Step("number", <<"number", "mem">>, Error),
      Step("cdev",   <<"cdev", "number", "mem">>, Error),
      Step("class",  <<"class", "cdev", "number", "mem">>, Success),
      Step("device", <<"device", "class", "cdev", "number", "mem">>, Success)>>

LedExit == <<"device", "class", "cdev", "number", "mem">>

(* platform/driver: the same ladder in led_char_driver_register; led_probe *)
(* takes its 0 for success and writes through the pointer it did not set.  *)
(* res->name is read before res is tested. The registers' address and the  *)
(* pin are stored last.                                                    *)
PlatformLedSteps ==
    <<Step("res",      <<>>, Oops),
      Step("property", <<>>, Error),
      Step("mem",      <<>>, Error),
      Step("number",   <<"number", "mem">>, Error),
      Step("cdev",     <<"cdev", "number", "mem">>, Error),
      Step("class",    <<"class", "cdev", "number", "mem">>, Oops),
      Step("device",   <<"device", "class", "cdev", "number", "mem">>, Oops),
      Set("fields")>>

PlatformLedRemove == <<"device", "class", "cdev", "number", "mem">>

-----------------------------------------------------------------------------
(* of_gpio_led/led_driver: mem and gpio are devm_. *)
GpioLedLadder ==
    <<Step("mem",      <<>>, Error),
      Step("gpio_num", <<"mem">>, Error),
      Step("gpio",     <<"mem">>, Error),
      Step("number",   <<"gpio", "mem">>, Error),
      Step("cdev",     <<"number", "gpio", "mem">>, Error),
      Step("class",    <<"cdev", "number", "gpio", "mem">>, Error),
      Step("device",   <<"class", "cdev", "number", "gpio", "mem">>, Error)>>

(* Mutants: the label of device_create skips cdev_del; class_create does   *)
(* not set ret; nobody sets it; the gpio is also freed by hand; remove     *)
(* forgets the number.                                                     *)
GpioLedLeaky ==
    [GpioLedLadder EXCEPT ![7].undo = <<"class", "number", "gpio", "mem">>]
GpioLedSilent ==
    [GpioLedLadder EXCEPT ![6] = Step("class", <<"cdev", "number">>, Success)]
GpioLedUnset ==
    [GpioLedLadder EXCEPT ![4].returns = {"uninitialised"}]
GpioLedTwice ==
    [GpioLedLadder EXCEPT ![4].undo = <<"gpio", "gpio", "mem">>]

GpioLedSteps == GpioLedLadder

GpioLedRemoveShort == <<"device", "class", "cdev", "gpio", "mem">>
GpioLedRemove == <<"device", "class", "cdev", "number", "gpio", "mem">>

-----------------------------------------------------------------------------
(* i2c/driver/slave_driver (A): a clean ladder, and an empty remove after  *)
(* which the core frees mem.                                               *)
MpuASteps ==
    <<Step("mem",    <<>>, Error),
      Set("client"),
      Step("number", <<"mem">>, Error),
      Step("cdev",   <<"number", "mem">>, Error),
      Step("class",  <<"cdev", "number", "mem">>, Error),
      Step("device", <<"class", "cdev", "number", "mem">>, Error)>>

MpuARemove == <<"mem">>

(* i2c-mpu6050-driver (B): __register_chrdev takes number and cdev         *)
(* together (number fails for both); ret is its 0 when a later step fails. *)
(* The client its file operations use is stored last.                      *)
MpuBSteps ==
    <<Step("number", <<>>, Error),
      Set("cdev"),
      Step("class",  <<"cdev", "number">>, Success),
      Step("device", <<"class", "cdev", "number">>, Success),
      Set("client")>>

MpuBRemove == <<"device", "class", "cdev", "number">>

-----------------------------------------------------------------------------
(* key-interrupt, with a tasklet or a work: res is not tested. *)
KeyLate ==
    <<Step("res", <<>>, Oops),
      Step("irq", <<>>, Error),
      Set("bottom_half")>>

KeySteps ==
    <<Step("res", <<>>, Oops),
      Set("bottom_half"),
      Step("irq", <<>>, Error)>>

(* key-interrupt, without a bottom half. *)
KeyPlainSteps == <<Step("res", <<>>, Oops), Step("irq", <<>>, Error)>>

KeyRemove == <<"irq">>

-----------------------------------------------------------------------------
(* i2c/i2c-con, the probe of the I2C controller: an interrupt number of 0  *)
(* is an error whose value, 0, is then returned. A failing adapter also    *)
(* takes back the frequency notifier, which the excerpt does not register. *)
(* The excerpt has no remove.                                              *)
S3cSteps ==
    <<Step("pdata",   <<>>, Error),
      Step("mem",     <<>>, Error),
      Step("clk",     <<"mem">>, Error),
      Step("res",     <<"clk", "mem">>, Error),
      Step("region",  <<"clk", "mem">>, Error),
      Step("map",     <<"region", "clk", "mem">>, Error),
      Step("init",    <<"map", "region", "clk", "mem">>, Error),
      Step("irq_num", <<"map", "region", "clk", "mem">>, Error \cup Success),
      Step("irq",     <<"map", "region", "clk", "mem">>, Error),
      Step("adapter", <<"cpufreq", "irq", "map", "region", "clk", "mem">>,
           Error),
      Set("drvdata")>>

-----------------------------------------------------------------------------
Driver == {"adc", "led", "platform_led", "gpio_led", "mpu_a", "mpu_b", "key",
           "key_plain", "s3c2410"}

Probe ==
    [adc |-> AdcSteps, led |-> LedSteps, platform_led |-> PlatformLedSteps,
     gpio_led |-> GpioLedSteps, mpu_a |-> MpuASteps, mpu_b |-> MpuBSteps,
     key |-> KeySteps, key_plain |-> KeyPlainSteps, s3c2410 |-> S3cSteps]

Removable == Driver \ {"s3c2410"}

Remove ==
    [adc |-> AdcRemove, led |-> LedExit, platform_led |-> PlatformLedRemove,
     gpio_led |-> GpioLedRemove, mpu_a |-> MpuARemove, mpu_b |-> MpuBRemove,
     key |-> KeyRemove, key_plain |-> KeyRemove]

(* What the driver's entry points (file operations, interrupt handler) use *)
(* of what its probe got. The registers of led and platform_led are mapped *)
(* by open.                                                                *)
Needs ==
    [adc |-> {"mem", "map", "waitq", "clk"}, led |-> {"mem"},
     platform_led |-> {"mem", "fields"}, gpio_led |-> {"mem", "gpio"},
     mpu_a |-> {"mem", "client"}, mpu_b |-> {"client"},
     key |-> {"bottom_half"}, key_plain |-> {},
     s3c2410 |-> {"mem", "clk", "map", "init"}]

(* Names two instances cannot both have: fixed device numbers (adc asks    *)
(* for a free one when its own is taken), and class names.                 *)
NoName == "-"
NameOf(d, thing) ==
    CASE thing = "number" /\ d \in {"led", "platform_led"} -> "255:3"
      [] thing = "number" /\ d = "mpu_b" -> "226:0"
      [] thing = "class" /\ d \in {"led", "platform_led"} -> "led_class"
      [] thing = "class" /\ d = "adc"      -> "adc"
      [] thing = "class" /\ d = "gpio_led" -> "fs-led"
      [] thing = "class" /\ d = "mpu_a"    -> "mpu6050"
      [] thing = "class" /\ d = "mpu_b"    -> "mpu6050-dev"
      [] OTHER -> NoName
Names == {NameOf(d, t) : d \in Driver, t \in Thing} \ {NoName}
=============================================================================
